---- MODULE Spec2Model ----
(***************************************************************************)
(* Canvas DAP client (DAPClient) as a state machine.                       *)
(*                                                                         *)
(* One client object, one caller.  An async method runs atomically from    *)
(* one suspension point (a network request in flight, a timer) to the      *)
(* next, so every action below is one such run: a call from the page, the  *)
(* arrival of a Relay envelope, or the firing of the poll timer.  The      *)
(* method bodies are operators on the state record St; an action applies   *)
(* one of them and installs the result with Set.                           *)
(*                                                                         *)
(* Time is counted in seconds.  The vendor and the Relay are the           *)
(* environment: they choose the envelopes and how long each request takes. *)
(***************************************************************************)
EXTENDS Integers, Sequences, FiniteSets, TLC

\* ---- bounds of the model ------------------------------------------------
MaxTime == 4            \* the clock stops here
MaxLatency == 1         \* longest duration of one request, in seconds
MaxTimeout == 2         \* largest timeout passed to waitForJobCompletion
MaxPollInterval == 2    \* largest pollInterval passed to waitForJobCompletion
MaxObjects == 2         \* most objects in a completed job
MaxExpiresIn == 1       \* largest expires_in the token endpoint answers with
MaxCallers == 2         \* concurrent callers of ensureAuthenticated/authenticate
MaxTokens == 3          \* tokens the token endpoint hands to concurrent callers
MaxLen == 3             \* most bytes in a file whose bytes are followed one by one

\* ---- program constants --------------------------------------------------
DefaultExpiresIn == 3600
DefaultTimeout == 300
DefaultPollInterval == 2

null == 0               \* accessToken / tokenExpiry not set; a job without id
None == <<>>            \* an absent field
Some(x) == <<x>>        \* a present field

Table == "users"
ErrorStrings == {"quota exceeded", ""}
JobStatuses == {"pending", "running", "completed", "complete", "failed"}
TerminalStatuses == {"completed", "complete", "failed"}

\* Envelope statuses; 0 stands for makeProxyRequest itself throwing
\* (network error or a non-OK answer of the Relay).
ProxyFailed == 0
EnvelopeStatuses == {ProxyFailed, 200, 202, 404, 500}

VARIABLES
  clientId,        \* TRUE when this.clientId is set
  clientSecret,    \* TRUE when this.clientSecret is set
  accessToken,     \* this.accessToken (null or the token's number)
  tokenExpiry,     \* this.tokenExpiry (null or a time)
  now,             \* the clock
  job,             \* vendor: the job as it is on the server
  top,             \* the method the page called
  cur,             \* the token-gated method whose request is being made
  pc,              \* where the call is suspended
  log,             \* what the current token-gated method has logged so far
  outcome,         \* how the last call ended
  jobId,           \* waitForJobCompletion: jobId
  timeout,         \* waitForJobCompletion: timeout
  pollInterval,    \* waitForJobCompletion: pollInterval
  startTime,       \* waitForJobCompletion: startTime
  pollStart,       \* time at which the latest getJobStatus was called
  pollEnd,         \* time at which the latest getJobStatus returned
  objectIds,       \* getDownloadUrls: objectIds
  urlInfo,         \* downloadTableData: urlInfo
  objIdx,          \* downloadTableData: position of the for loop in urlInfo
  files,           \* downloadTableData: files
  dlUrl,           \* downloadFile: url (None outside downloadFile)
  delivered,       \* the payload the latest answer of the Relay was made of
  args,            \* the arguments the page built the query descriptor from
  query,           \* queryTableData, getTableData, downloadTableData: query
  payload,         \* the latest request the client handed to fetch
  waiting,         \* concurrent callers whose authentication request is in flight
  granted,         \* token endpoint: the successful answers given to those callers
  flight,          \* concurrent token-gated operations: where each is, its request's token
  handler,         \* the page's Run Query handler: its step and its jobInfo
  created,         \* vendor: the number of jobs created for the handler's queries
  relay            \* the Relay (api/proxy.js): the request it is handling

vars == <<clientId, clientSecret, accessToken, tokenExpiry, now, job,
          top, cur, pc, log, outcome, jobId, timeout, pollInterval, startTime,
          pollStart, pollEnd, objectIds, urlInfo, objIdx, files,
          dlUrl, delivered, args, query, payload, waiting, granted, flight,
          handler, created, relay>>

St == [clientId |-> clientId, clientSecret |-> clientSecret,
       accessToken |-> accessToken, tokenExpiry |-> tokenExpiry, now |-> now,
       job |-> job, top |-> top, cur |-> cur, pc |-> pc,
       log |-> log, outcome |-> outcome, jobId |-> jobId, timeout |-> timeout,
       pollInterval |-> pollInterval, startTime |-> startTime,
       pollStart |-> pollStart, pollEnd |-> pollEnd, objectIds |-> objectIds,
       urlInfo |-> urlInfo, objIdx |-> objIdx, files |-> files,
       dlUrl |-> dlUrl, delivered |-> delivered,
       args |-> args, query |-> query, payload |-> payload, waiting |-> waiting,
       granted |-> granted, flight |-> flight, handler |-> handler,
       created |-> created, relay |-> relay]

Set(s) ==
  /\ clientId' = s.clientId /\ clientSecret' = s.clientSecret
  /\ accessToken' = s.accessToken /\ tokenExpiry' = s.tokenExpiry
  /\ now' = s.now /\ job' = s.job
  /\ top' = s.top /\ cur' = s.cur /\ pc' = s.pc /\ log' = s.log
  /\ outcome' = s.outcome /\ jobId' = s.jobId /\ timeout' = s.timeout
  /\ pollInterval' = s.pollInterval /\ startTime' = s.startTime
  /\ pollStart' = s.pollStart /\ pollEnd' = s.pollEnd
  /\ objectIds' = s.objectIds /\ urlInfo' = s.urlInfo /\ objIdx' = s.objIdx
  /\ files' = s.files
  /\ dlUrl' = s.dlUrl /\ delivered' = s.delivered
  /\ args' = s.args /\ query' = s.query /\ payload' = s.payload
  /\ waiting' = s.waiting /\ granted' = s.granted /\ flight' = s.flight
  /\ handler' = s.handler /\ created' = s.created
  /\ relay' = s.relay

\* The Run Query handler before the button is clicked.
NotClicked == [step |-> "none", jobInfo |-> None]

\* A concurrent operation that has not been called.
NotCalled == [pc |-> "none", token |-> null]

\* ---- the log -------------------------------------------------------------
Ev(e, o, k, t) == [ev |-> e, op |-> o, n |-> k, s |-> t]
Logged(s, e) == [s EXCEPT !.log = Append(@, e)]

NoOutcome == [kind |-> "none", err |-> "", val |-> <<>>, at |-> 0]

\* ---- how a call ends -------------------------------------------------------
Return(s, v) ==
  [s EXCEPT !.pc = "done", !.cur = "none",
            !.outcome = [kind |-> "return", err |-> "", val |-> v, at |-> s.now]]

Throw(s, msg) ==
  [s EXCEPT !.pc = "done", !.cur = "none",
            !.outcome = [kind |-> "throw", err |-> msg, val |-> <<>>, at |-> s.now]]

StatusLine(st) == ToString(st) \o " - "


\* ---- the vendor ------------------------------------------------------------
ObjectFields == {None} \cup {Some([i \in 1..k |-> i]) : k \in 0..MaxObjects}

VendorJobs ==
  {[status |-> st, error |-> None, objects |-> None] : st \in {"pending", "running"}}
  \cup {[status |-> st, error |-> None, objects |-> o] :
          st \in {"completed", "complete"}, o \in ObjectFields}
  \cup {[status |-> "failed", error |-> e, objects |-> None] :
          e \in {None} \cup {Some(x) : x \in ErrorStrings}}

Rank(st) == CASE st = "pending" -> 0 [] st = "running" -> 1 [] OTHER -> 2

\* A job only moves forward, and a terminal job stays as it is.
Evolve(j) ==
  IF j.status \in TerminalStatuses THEN {j}
  ELSE {k \in VendorJobs : Rank(k.status) >= Rank(j.status)}

JobData(j, id) ==
  [id |-> id, status |-> j.status, error |-> j.error, objects |-> j.objects]

\* The bytes of object o in the object store.
ObjectBytes(o) == <<o, 255>>

\* A signed URL, by the substrings the client and the Relay look for in it.
DataExtensions == {".csv", ".gz", ".parquet", ".jsonl", ".tsv"}
FileExtensions == {".gz", ".csv", ".parquet", ".zip", ".json", ".jsonl", ".tsv", ".txt"}

S3Signed(o) == [obj |-> o, s3 |-> TRUE, signed |-> TRUE, exts |-> {".csv", ".gz"}]
S3Plain(o) == [obj |-> o, s3 |-> TRUE, signed |-> FALSE, exts |-> {".gz"}]
OtherHost(o) == [obj |-> o, s3 |-> FALSE, signed |-> FALSE, exts |-> {}]
S3SignedArchive(o) == [obj |-> o, s3 |-> TRUE, signed |-> TRUE, exts |-> {".zip"}]

FileName(o) == "f" \o ToString(o) \o ".csv.gz"

\* What URL resolution may answer for object o: no entry, an entry without
\* url, or an entry with a url, with or without a filename.
UrlEntries(o) ==
  {None,
   Some([id |-> o, url |-> None, filename |-> None]),
   Some([id |-> o, url |-> Some(S3Signed(o)), filename |-> Some(FileName(o))]),
   Some([id |-> o, url |-> Some(S3Plain(o)), filename |-> None]),
   Some([id |-> o, url |-> Some(OtherHost(o)), filename |-> Some(FileName(o))])}

RECURSIVE UrlMappings(_)
UrlMappings(ids) ==
  IF ids = <<>> THEN {<<>>}
  ELSE {e \o m : e \in UrlEntries(Head(ids)), m \in UrlMappings(Tail(ids))}

\* ---- values of the page's script ---------------------------------------------
Undefined == [kind |-> "undefined"]
JsNull == [kind |-> "null"]
Str(x) == [kind |-> "string", text |-> x]
Date(t) == [kind |-> "date", time |-> t]       \* t: milliseconds since the epoch
NaN == -1                                      \* the time of an invalid Date

truthy(v) == v.kind = "date" \/ (v.kind = "string" /\ v.text # "")

Pad(n, width) ==
  IF width = 3 /\ n < 10 THEN "00" \o ToString(n)
  ELSE IF n < 10 \/ (width = 3 /\ n < 100) THEN "0" \o ToString(n)
  ELSE ToString(n)

\* Date.prototype.toISOString, for times within the first minute of the epoch.
toISOString(d) ==
  "1970-01-01T00:00:" \o Pad(d.time \div 1000, 2) \o "." \o Pad(d.time % 1000, 3) \o "Z"

\* value instanceof Date ? value.toISOString() : value; the first throws a
\* RangeError for an invalid Date.
Throws(v) == v.kind = "date" /\ v.time = NaN
Serialized(v) == IF v.kind = "date" THEN Str(toISOString(v)) ELSE v

\* ---- Query Builder -----------------------------------------------------------
\* A descriptor or a request body: each field is None when the object has no
\* such key, Some(v) when it has the key with value v.
createSnapshotQuery(format, mode) ==
  [format |-> Some(format), since |-> None, until |-> None,
   mode |-> IF truthy(mode) THEN Some(mode) ELSE None, type |-> None]

\* None when the builder throws.
createIncrementalQuery(format, since, until, mode) ==
  IF Throws(since) \/ (truthy(until) /\ Throws(until)) THEN None
  ELSE Some([format |-> Some(format),
             since |-> Some(Serialized(since)),
             until |-> IF truthy(until) THEN Some(Serialized(until)) ELSE None,
             mode |-> IF truthy(mode) THEN Some(mode) ELSE None,
             type |-> None])

\* The descriptor the page builds when nothing else is said (a snapshot).
DefaultQuery == createSnapshotQuery(Str("jsonl"), JsNull)

\* query.<field>
Field(f) == IF f = None THEN Undefined ELSE f[1]

\* Variant: the descriptor itself is the body.
queryTableData_requestBody_whole(q) == q

\* requestBody of queryTableData
queryTableData_requestBody(q) ==
  [format |-> Some(Field(q.format)),
   since |-> IF truthy(Field(q.since)) THEN q.since ELSE None,
   until |-> IF truthy(Field(q.since)) /\ truthy(Field(q.until)) THEN q.until ELSE None,
   mode |-> IF truthy(Field(q.mode)) THEN q.mode ELSE None,
   type |-> None]

\* ---- requests ---------------------------------------------------------------
\* The Authorization header: Basic btoa(clientId:clientSecret), Bearer accessToken.
Basic == [scheme |-> "Basic", value |-> {"clientId", "clientSecret"}]
Bearer(token) == [scheme |-> "Bearer", value |-> token]

\* What makeProxyRequest puts into the body of its fetch.
Payload(op, authorization, data) ==
  Some([op |-> op, authorization |-> authorization, data |-> data])

\* ---- Token Manager ---------------------------------------------------------
\* Variant: the request is sent whether or not the credentials are set.
authenticate_unchecked(s) ==
  Logged([s EXCEPT !.pc = "authWait"], Ev("auth.req", s.cur, 0, ""))

authenticate(s) ==
  IF ~s.clientId \/ ~s.clientSecret
  THEN Throw(s, "Client ID and Client Secret are required")
  ELSE Logged([s EXCEPT !.pc = "authWait",
                        !.payload = Payload("authenticate", Some(Basic),
                                            Some("grant_type=client_credentials"))],
              Ev("auth.req", s.cur, 0, ""))

ensureAuthenticated_return(s, tok) ==
  Logged([s EXCEPT !.pc = "send"], Ev("ensure.ret", s.cur, tok, ""))

\* Variant: the token of the answer is stored before its status is examined.
authenticate_response_early(s, env) ==
  LET s0 == Logged([s EXCEPT !.accessToken = env.access_token],
                   Ev("auth.resp", s.cur, env.access_token,
                      IF env.status = 200 THEN "ok" ELSE ""))
      expiresIn == IF env.expires_in = 0 THEN DefaultExpiresIn ELSE env.expires_in
      s1 == [s0 EXCEPT !.tokenExpiry = s.now + expiresIn]
  IN IF env.status = ProxyFailed
     THEN Throw(s0, "Authentication failed: Proxy request failed")
     ELSE IF env.status # 200
     THEN Throw(s0, "Authentication failed: Authentication failed: "
                      \o StatusLine(env.status))
     ELSE IF s.top = "authenticate"
     THEN Return(s1, Some(s1.accessToken))
     ELSE ensureAuthenticated_return(s1, s1.accessToken)

\* Variant: a failed authentication forgets the stored token.
authenticate_response_forget(s, env) ==
  LET s0 == Logged(s, Ev("auth.resp", s.cur, env.access_token,
                      IF env.status = 200 THEN "ok" ELSE ""))
      expiresIn == IF env.expires_in = 0 THEN DefaultExpiresIn ELSE env.expires_in
      s1 == [s0 EXCEPT !.accessToken = env.access_token,
                       !.tokenExpiry = s.now + expiresIn]
      s2 == [s0 EXCEPT !.accessToken = null, !.tokenExpiry = null]
  IN IF env.status = ProxyFailed
     THEN Throw(s2, "Authentication failed: Proxy request failed")
     ELSE IF env.status # 200
     THEN Throw(s2, "Authentication failed: Authentication failed: "
                      \o StatusLine(env.status))
     ELSE IF s.top = "authenticate"
     THEN Return(s1, Some(s1.accessToken))
     ELSE ensureAuthenticated_return(s1, s1.accessToken)

authenticate_response(s, env) ==
  LET s0 == Logged(s, Ev("auth.resp", s.cur, env.access_token,
                      IF env.status = 200 THEN "ok" ELSE ""))
      expiresIn == IF env.expires_in = 0 THEN DefaultExpiresIn ELSE env.expires_in
      s1 == [s0 EXCEPT !.accessToken = env.access_token,
                       !.tokenExpiry = s.now + expiresIn]
  IN IF env.status = ProxyFailed
     THEN Throw(s0, "Authentication failed: Proxy request failed")
     ELSE IF env.status # 200
     THEN Throw(s0, "Authentication failed: Authentication failed: "
                      \o StatusLine(env.status))
     ELSE IF s.top = "authenticate"
     THEN Return(s1, Some(s1.accessToken))
     ELSE ensureAuthenticated_return(s1, s1.accessToken)

\* Variant: a token is still accepted at the instant of its expiry.
ensureAuthenticated_late(s) ==
  IF s.accessToken = null \/ s.tokenExpiry = null \/ s.now > s.tokenExpiry
  THEN authenticate(s)
  ELSE ensureAuthenticated_return(s, s.accessToken)

\* Variant: a caller that finds an authentication in flight awaits that one.
ensureAuthenticated_singleFlight(s) ==
  IF s.accessToken = null \/ s.tokenExpiry = null \/ s.now >= s.tokenExpiry
  THEN IF \E c \in 1..MaxCallers : s.flight[c].pc = "authWait"
       THEN [s EXCEPT !.pc = "authWait"]
       ELSE authenticate(s)
  ELSE ensureAuthenticated_return(s, s.accessToken)

ensureAuthenticated(s) ==
  IF s.accessToken = null \/ s.tokenExpiry = null \/ s.now >= s.tokenExpiry
  THEN authenticate(s)
  ELSE ensureAuthenticated_return(s, s.accessToken)

\* 0: a token is stored and not expired; 1: stored and expired; 2: none stored
TokenState(s) ==
  IF s.accessToken = null \/ s.tokenExpiry = null THEN 2
  ELSE IF s.now >= s.tokenExpiry THEN 1 ELSE 0

\* Variant: the method sends its request without awaiting ensureAuthenticated.
Enter_ungated(s, op) ==
  Logged([s EXCEPT !.cur = op, !.pc = "reqWait",
                   !.log = <<Ev("call", op, TokenState(s), "")>>],
         Ev("req", op, s.accessToken, ""))

\* Entry of a token-gated method: its first statement awaits ensureAuthenticated.
Enter(s, op) ==
  ensureAuthenticated(
    [s EXCEPT !.cur = op, !.log = <<Ev("call", op, TokenState(s), "")>>])

\* After ensureAuthenticated has returned, the method sends its own request
\* with the token stored at that moment.
RequestData(s) ==
  IF s.cur = "queryTableData" THEN Some(queryTableData_requestBody(s.query))
  ELSE IF s.cur = "getDownloadUrls" THEN Some(s.objectIds)
  ELSE None

\* Variant: every request carries the credentials.
makeProxyRequest_basic(s) ==
  Logged([s EXCEPT !.pc = "reqWait",
                   !.payload = Payload(s.cur, Some(Basic), RequestData(s))],
         Ev("req", s.cur, s.accessToken, ""))

makeProxyRequest(s) ==
  Logged([s EXCEPT !.pc = "reqWait",
                   !.payload = Payload(s.cur, Some(Bearer(s.accessToken)), RequestData(s))],
         Ev("req", s.cur, s.accessToken, ""))

\* ---- Catalog Client --------------------------------------------------------
getTables_response(s, env) ==
  LET s0 == Logged(s, Ev("resp", s.cur, 0, IF env.status = 200 THEN "ok" ELSE ""))
  IN IF env.status = ProxyFailed
     THEN Throw(s0, "Failed to get tables: Proxy request failed")
     ELSE IF env.status # 200
     THEN Throw(s0, "Failed to get tables: Failed to get tables: " \o StatusLine(env.status))
     ELSE Return(s0, env.data)

getTableSchema_response(s, env) ==
  LET s0 == Logged(s, Ev("resp", s.cur, 0, IF env.status = 200 THEN "ok" ELSE ""))
  IN IF env.status = ProxyFailed
     THEN Throw(s0, "Failed to get table schema: Proxy request failed")
     ELSE IF env.status # 200
     THEN Throw(s0, "Failed to get table schema: Failed to get table schema: "
                      \o StatusLine(env.status))
     ELSE Return(s0, env.data)


\* ---- texts, bytes and JSON ------------------------------------------------------
\* A string is the sequence of its code points.  Bytes are UTF-8.
RECURSIVE UTF8Encode(_)
UTF8Encode(str) ==
  IF str = <<>> THEN <<>>
  ELSE LET c == Head(str)
       IN (IF c < 128 THEN <<c>>
           ELSE IF c < 2048 THEN <<192 + (c \div 64), 128 + (c % 64)>>
           ELSE <<224 + (c \div 4096), 128 + ((c \div 64) % 64), 128 + (c % 64)>>)
            \o UTF8Encode(Tail(str))

ReplacementCharacter == 65533
Continuation(b) == b \in 128..191

\* Buffer.toString('utf8'), for characters of at most three bytes: a byte
\* that does not start a well-formed character becomes U+FFFD.
RECURSIVE UTF8Decode(_)
UTF8Decode(bytes) ==
  IF bytes = <<>> THEN <<>>
  ELSE LET h == Head(bytes)
       IN IF h < 128 THEN <<h>> \o UTF8Decode(Tail(bytes))
          ELSE IF h \in 194..223 /\ Len(bytes) >= 2 /\ Continuation(bytes[2])
          THEN <<(h - 192) * 64 + (bytes[2] - 128)>> \o UTF8Decode(Tail(Tail(bytes)))
          ELSE IF /\ h \in 224..239 /\ Len(bytes) >= 3
                  /\ Continuation(bytes[2]) /\ Continuation(bytes[3])
                  /\ (h - 224) * 4096 + (bytes[2] - 128) * 64 >= 2048
          THEN <<(h - 224) * 4096 + (bytes[2] - 128) * 64 + (bytes[3] - 128)>>
                 \o UTF8Decode(Tail(Tail(Tail(bytes))))
          ELSE <<ReplacementCharacter>> \o UTF8Decode(Tail(bytes))

\* String.fromCharCode.apply(null, bytes): every byte becomes one character.
CharCodes(bytes) == [i \in DOMAIN bytes |-> bytes[i]]

Names == {<<97>>, <<233>>}          \* "a" and "e" with an acute accent

\* The texts a body can hold.  object: prefix + {"<key>":{"1":{"url":...,
\* "filename":"<name>"}}}; garbage: the same text cut short, which does not parse.
\* A body of kind binary is not text: name holds all its bytes.
Texts ==
  [prefix : {"", " "}, kind : {"object", "garbage"}, key : {"urls", "foo"},
   name : Names]

toBytes(text) == [text EXCEPT !.name = UTF8Encode(@)]
toString(bytes) == [bytes EXCEPT !.name = UTF8Decode(@)]
fromCharCode(bytes) == [bytes EXCEPT !.name = CharCodes(@)]

startsWithBrace(text) == text.prefix = "" /\ text.kind # "binary"
includesUrls(text) == text.key = "urls"

\* JSON.parse: None when it throws.
JSONparse(text) ==
  IF text.kind # "object" THEN None
  ELSE Some([urls |-> IF text.key = "urls"
                      THEN Some(<<[id |-> 1, url |-> Some(OtherHost(1)),
                                   filename |-> Some(text.name)]>>)
                      ELSE None])

\* The kinds of value an envelope's data or an axios response's data can be.
IsArray(data) == "array" \in DOMAIN data
IsBuffer(data) == "buffer" \in DOMAIN data
IsString(data) == "string" \in DOMAIN data
IsObject(data) == ~IsArray(data) /\ ~IsBuffer(data) /\ ~IsString(data)

\* ---- Object Resolver & Downloader --------------------------------------------
isS3Url(url) == url.s3 /\ (url.exts \cap DataExtensions # {})

\* The Relay does not fetch such a url; it answers with a redirect envelope.
isS3FileDownload(url) == url.s3 /\ url.signed /\ (url.exts \cap FileExtensions # {})

\* Variant: the typed array is one of signed bytes.
Uint8Array_signed(a) ==
  [i \in 1..Len(a) |-> IF a[i] % 256 > 127 THEN (a[i] % 256) - 256 ELSE a[i] % 256]

Uint8Array(a) == [i \in 1..Len(a) |-> a[i] % 256]

\* [...new Uint8Array(buffer)]: the bytes of the Relay's buffer as a list of numbers.
byteArray(buffer) == [i \in 1..Len(buffer) |-> Uint8Array(buffer)[i]]

\* A number in the text of a JSON body, and the number read back from it.
RECURSIVE Digits(_)
Digits(n) == IF n < 10 THEN <<n>> ELSE Append(Digits(n \div 10), n % 10)

RECURSIVE Number(_)
Number(ds) ==
  IF Len(ds) = 1 THEN ds[1]
  ELSE Number(SubSeq(ds, 1, Len(ds) - 1)) * 10 + ds[Len(ds)]

\* res.json(...) writes a list of numbers; response.json() reads it.
jsonBody(array) == [i \in 1..Len(array) |-> Digits(array[i])]
responseJson(body) == [i \in 1..Len(body) |-> Number(body[i])]

RedirectDescriptor(url) ==
  [type |-> "redirect", url |-> url,
   message |-> "Large file detected. Click to download directly."]

Buffer(bytes) == [type |-> "buffer", bytes |-> bytes]

downloadFile_proxy(s, url) ==
  Logged([s EXCEPT !.pc = "dlWait", !.payload = Payload("downloadFile", None, None)],
         Ev("dl.req", "downloadFile", url.obj, ""))

downloadFile(s, url) ==
  LET s0 == [s EXCEPT !.dlUrl = Some(url)]
  IN IF isS3Url(url)
     THEN Logged([s0 EXCEPT !.pc = "directWait", !.payload = Payload("fetch", None, None)],
                 Ev("direct.req", "downloadFile", url.obj, ""))
     ELSE downloadFile_proxy(s0, url)

\* The entry of urlInfo the for loop of downloadTableData is at.
Current(s) == s.urlInfo[s.objIdx]

\* Variant: the filename of the URL mapping is ignored.
downloadTableData_push_default(s, content) ==
  LET info == Current(s)
      filename == Table \o "_" \o ToString(info.id)
      file == IF content.type = "redirect"
              THEN [filename |-> filename, isRedirect |-> TRUE,
                    redirectUrl |-> content.url, message |-> content.message]
              ELSE [filename |-> filename, content |-> content.bytes]
  IN [s EXCEPT !.files = Append(@, file), !.objIdx = @ + 1]

\* The body of the for loop of downloadTableData after downloadFile returned
\* content for the current entry.
downloadTableData_push(s, content) ==
  LET info == Current(s)
      filename == IF info.filename = None
                  THEN Table \o "_" \o ToString(info.id)
                  ELSE info.filename[1]
      file == IF content.type = "redirect"
              THEN [filename |-> filename, isRedirect |-> TRUE,
                    redirectUrl |-> content.url, message |-> content.message]
              ELSE [filename |-> filename, content |-> content.bytes]
  IN [s EXCEPT !.files = Append(@, file), !.objIdx = @ + 1]

\* The for loop of downloadTableData, up to its next downloadFile call.
RECURSIVE downloadTableData_files(_)
downloadTableData_files(s) ==
  IF s.objIdx > Len(s.urlInfo)
  THEN Return(s, [files |-> s.files])
  ELSE IF Current(s).url = None
  THEN downloadTableData_files([s EXCEPT !.objIdx = @ + 1])
  ELSE downloadFile(s, Current(s).url[1])

\* downloadFile returns content: to the page, or into the loop of
\* downloadTableData.
downloadFile_return(s, content) ==
  IF s.top = "downloadFile" THEN Return(s, content)
  ELSE downloadTableData_files(downloadTableData_push(s, content))

\* Variant: a failed direct fetch fails the download.
directFetch_response_throw(s, ok, bytes) ==
  LET url == s.dlUrl[1]
      s0 == Logged(s, Ev("direct.resp", "downloadFile", url.obj, IF ok THEN "ok" ELSE "failed"))
  IN IF ok
     THEN downloadFile_return(s0, Buffer(bytes))
     ELSE Throw(s0, "Failed to download file: Direct download failed")

directFetch_response(s, ok, bytes) ==
  LET url == s.dlUrl[1]
      s0 == Logged(s, Ev("direct.resp", "downloadFile", url.obj, IF ok THEN "ok" ELSE "failed"))
  IN IF ok
     THEN downloadFile_return(s0, Buffer(bytes))
     ELSE downloadFile_proxy(s0, url)

\* Variant: the url of a redirect envelope is fetched instead of being handed back.
downloadFile_response_follow(s, env) ==
  LET url == s.dlUrl[1]
      s0 == Logged(s, Ev("dl.resp", "downloadFile", url.obj,
                         IF env.status = 200 THEN "ok"
                         ELSE IF env.status = 302 THEN "redirect" ELSE ""))
  IN IF env.status = ProxyFailed
     THEN Throw(s0, "Failed to download file: Proxy request failed")
     ELSE IF env.redirect # None /\ env.status = 302
     THEN Logged([s0 EXCEPT !.pc = "directWait"],
                 Ev("direct.req", "downloadFile", env.redirect[1].obj, ""))
     ELSE IF env.status # 200
     THEN Throw(s0, "Failed to download file: Failed to download file: "
                      \o StatusLine(env.status))
     ELSE downloadFile_return(s0, Buffer(Uint8Array(env.data)))

\* Variant: a redirect envelope is not recognised.
downloadFile_response_noredirect(s, env) ==
  LET url == s.dlUrl[1]
      s0 == Logged(s, Ev("dl.resp", "downloadFile", url.obj,
                         IF env.status = 200 THEN "ok"
                         ELSE IF env.status = 302 THEN "redirect" ELSE ""))
  IN IF env.status = ProxyFailed
     THEN Throw(s0, "Failed to download file: Proxy request failed")
     ELSE IF env.status # 200
     THEN Throw(s0, "Failed to download file: Failed to download file: "
                      \o StatusLine(env.status))
     ELSE downloadFile_return(s0, Buffer(Uint8Array(env.data)))

\* Variant: downloadTableData passes over a file whose download has failed.
downloadFile_response_skip(s, env) ==
  LET url == s.dlUrl[1]
      s0 == Logged(s, Ev("dl.resp", "downloadFile", url.obj,
                         IF env.status = 200 THEN "ok"
                         ELSE IF env.status = 302 THEN "redirect" ELSE ""))
  IN IF env.redirect # None /\ env.status = 302
     THEN downloadFile_return(s0, RedirectDescriptor(env.redirect[1]))
     ELSE IF env.status # 200
     THEN IF s.top = "downloadFile"
          THEN Throw(s0, "Failed to download file: Proxy request failed")
          ELSE downloadTableData_files([s0 EXCEPT !.objIdx = @ + 1])
     ELSE downloadFile_return(s0, Buffer(Uint8Array(env.data)))

downloadFile_response(s, env) ==
  LET url == s.dlUrl[1]
      s0 == Logged(s, Ev("dl.resp", "downloadFile", url.obj,
                         IF env.status = 200 THEN "ok"
                         ELSE IF env.status = 302 THEN "redirect" ELSE ""))
  IN IF env.status = ProxyFailed
     THEN Throw(s0, "Failed to download file: Proxy request failed")
     ELSE IF env.redirect # None /\ env.status = 302
     THEN downloadFile_return(s0, RedirectDescriptor(env.redirect[1]))
     ELSE IF env.status # 200
     THEN Throw(s0, "Failed to download file: Failed to download file: "
                      \o StatusLine(env.status))
     ELSE downloadFile_return(s0, Buffer(Uint8Array(env.data)))

\* responseData of getDownloadUrls: a non-empty array is turned into a string,
\* character by character, and parsed; the parsed value replaces the array
\* when it has urls.
getDownloadUrls_data(data) ==
  IF IsArray(data)
  THEN LET parsedData == JSONparse(fromCharCode(data.array))
       IN IF parsedData # None /\ parsedData[1].urls # None
          THEN parsedData[1]
          ELSE data
  ELSE data

\* responseData.urls || {}
getDownloadUrls_urls(responseData) ==
  IF IsObject(responseData) /\ responseData.urls # None
  THEN responseData.urls[1]
  ELSE <<>>

\* Variant: an answer without a urls mapping is an error.
getDownloadUrls_response_strict(s, env) ==
  LET s0 == Logged(s, Ev("resp", s.cur, 0, IF env.status = 200 THEN "ok" ELSE ""))
      responseData == getDownloadUrls_data(env.data)
      urls == getDownloadUrls_urls(responseData)
  IN IF env.status = ProxyFailed
     THEN Throw(s0, "Failed to get download URLs: Proxy request failed")
     ELSE IF env.status # 200
     THEN Throw(s0, "Failed to get download URLs: Failed to get download URLs: "
                      \o StatusLine(env.status))
     ELSE IF ~IsObject(responseData) \/ responseData.urls = None
     THEN Throw(s0, "Failed to get download URLs: No URLs in response")
     ELSE IF s.top = "getDownloadUrls"
     THEN Return(s0, urls)
     ELSE downloadTableData_files([s0 EXCEPT !.urlInfo = urls, !.objIdx = 1, !.files = <<>>])

getDownloadUrls_response(s, env) ==
  LET s0 == Logged(s, Ev("resp", s.cur, 0, IF env.status = 200 THEN "ok" ELSE ""))
      urls == getDownloadUrls_urls(getDownloadUrls_data(env.data))
  IN IF env.status = ProxyFailed
     THEN Throw(s0, "Failed to get download URLs: Proxy request failed")
     ELSE IF env.status # 200
     THEN Throw(s0, "Failed to get download URLs: Failed to get download URLs: "
                      \o StatusLine(env.status))
     ELSE IF s.top = "getDownloadUrls"
     THEN Return(s0, urls)
     ELSE downloadTableData_files([s0 EXCEPT !.urlInfo = urls, !.objIdx = 1, !.files = <<>>])

\* Variant: URL resolution is requested whatever the number of objects.
downloadTableData_job_always(s, jobInfo) ==
  LET ids == IF jobInfo.objects = None THEN <<>> ELSE jobInfo.objects[1]
  IN Enter([s EXCEPT !.objectIds = ids], "getDownloadUrls")

\* downloadTableData once getTableData has returned jobInfo.
downloadTableData_job(s, jobInfo) ==
  LET ids == IF jobInfo.objects = None THEN <<>> ELSE jobInfo.objects[1]
  IN IF Len(ids) = 0
     THEN Return(s, [files |-> <<>>])
     ELSE Enter([s EXCEPT !.objectIds = ids], "getDownloadUrls")

\* ---- Job Orchestrator ----------------------------------------------------------
getTableData_return(s, jobInfo) ==
  IF s.top = "getTableData" THEN Return(s, Some(jobInfo))
  ELSE downloadTableData_job(s, jobInfo)

waitForJobCompletion_return(s, jobStatus) ==
  IF s.top = "waitForJobCompletion" THEN Return(s, Some(jobStatus))
  ELSE getTableData_return(s, jobStatus)

\* Variant: the deadline test admits the instant of the deadline itself.
waitForJobCompletion_loop_inclusive(s) ==
  IF (s.now - s.startTime) <= s.timeout
  THEN Enter([s EXCEPT !.pollStart = s.now], "getJobStatus")
  ELSE Throw(s, "Job timed out after " \o ToString(s.timeout) \o " seconds")

\* Variant: the loop has no deadline.
waitForJobCompletion_loop_forever(s) ==
  Enter([s EXCEPT !.pollStart = s.now], "getJobStatus")

\* The loop condition and, when it holds, the getJobStatus call of the body.
waitForJobCompletion_loop(s) ==
  IF (s.now - s.startTime) < s.timeout
  THEN Enter([s EXCEPT !.pollStart = s.now], "getJobStatus")
  ELSE Throw(s, "Job timed out after " \o ToString(s.timeout) \o " seconds")

\* Variant: the first poll is made before the deadline is looked at.
waitForJobCompletion_pollFirst(s, id, tmo, poll) ==
  Enter([s EXCEPT !.jobId = id, !.timeout = tmo, !.pollInterval = poll,
                  !.startTime = s.now, !.pollStart = s.now],
        "getJobStatus")

waitForJobCompletion(s, id, tmo, poll) ==
  waitForJobCompletion_loop(
    [s EXCEPT !.jobId = id, !.timeout = tmo, !.pollInterval = poll,
              !.startTime = s.now])

\* Variant: the vendor's reason is dropped from the failure.
waitForJobCompletion_status_noreason(s, jobStatus) ==
  LET status == jobStatus.status
  IN IF status = "completed" \/ status = "complete"
     THEN waitForJobCompletion_return(s, jobStatus)
     ELSE IF status = "failed"
     THEN Throw(s, "Job failed: Unknown error")
     ELSE Logged([s EXCEPT !.pc = "sleep", !.cur = "none"],
                 Ev("sleep", "waitForJobCompletion", s.pollInterval, ""))

\* Variant: every status but `pending` and `failed` counts as completion.
waitForJobCompletion_status_eager(s, jobStatus) ==
  LET status == jobStatus.status
      errorInfo == IF jobStatus.error = None THEN "Unknown error"
                   ELSE IF jobStatus.error[1] = "" THEN "Unknown error"
                   ELSE jobStatus.error[1]
  IN IF status # "pending" /\ status # "failed"
     THEN waitForJobCompletion_return(s, jobStatus)
     ELSE IF status = "failed"
     THEN Throw(s, "Job failed: " \o errorInfo)
     ELSE Logged([s EXCEPT !.pc = "sleep", !.cur = "none"],
                 Ev("sleep", "waitForJobCompletion", s.pollInterval, ""))

\* Variant: `failed` is not recognised and the loop keeps polling.
waitForJobCompletion_status_nofail(s, jobStatus) ==
  LET status == jobStatus.status
  IN IF status = "completed" \/ status = "complete"
     THEN waitForJobCompletion_return(s, jobStatus)
     ELSE Logged([s EXCEPT !.pc = "sleep", !.cur = "none"],
                 Ev("sleep", "waitForJobCompletion", s.pollInterval, ""))

\* Variant: the wait doubles on every round.
waitForJobCompletion_status_backoff(s, jobStatus) ==
  LET status == jobStatus.status
      errorInfo == IF jobStatus.error = None THEN "Unknown error"
                   ELSE IF jobStatus.error[1] = "" THEN "Unknown error"
                   ELSE jobStatus.error[1]
  IN IF status = "completed" \/ status = "complete"
     THEN waitForJobCompletion_return(s, jobStatus)
     ELSE IF status = "failed"
     THEN Throw(s, "Job failed: " \o errorInfo)
     ELSE Logged([s EXCEPT !.pc = "sleep", !.cur = "none",
                           !.pollInterval = IF 2 * @ <= MaxPollInterval THEN 2 * @ ELSE @],
                 Ev("sleep", "waitForJobCompletion", s.pollInterval, ""))

\* The rest of the loop body, once getJobStatus has returned jobStatus.
waitForJobCompletion_status(s, jobStatus) ==
  LET status == jobStatus.status
      errorInfo == IF jobStatus.error = None THEN "Unknown error"
                   ELSE IF jobStatus.error[1] = "" THEN "Unknown error"
                   ELSE jobStatus.error[1]
  IN IF status = "completed" \/ status = "complete"
     THEN waitForJobCompletion_return(s, jobStatus)
     ELSE IF status = "failed"
     THEN Throw(s, "Job failed: " \o errorInfo)
     ELSE Logged([s EXCEPT !.pc = "sleep", !.cur = "none"],
                 Ev("sleep", "waitForJobCompletion", s.pollInterval, ""))

\* Variant: waitForJobCompletion sleeps and polls again after a failed poll.
getJobStatus_response_retry(s, env) ==
  LET s0 == Logged(s, Ev("resp", s.cur,
                         IF env.status \in {200, 202} THEN 0 ELSE env.status,
                         IF env.status \in {200, 202} THEN env.data.status ELSE ""))
  IN IF env.status \notin {200, 202} /\ s.top # "getJobStatus"
     THEN Logged([s0 EXCEPT !.pc = "sleep", !.cur = "none"],
                 Ev("sleep", "waitForJobCompletion", s.pollInterval, ""))
     ELSE IF env.status = ProxyFailed
     THEN Throw(s0, "Failed to get job status: Proxy request failed")
     ELSE IF env.status = 404
     THEN Throw(s0, "Failed to get job status: Job not found or expired: "
                      \o ToString(s.jobId))
     ELSE IF env.status # 200 /\ env.status # 202
     THEN Throw(s0, "Failed to get job status: Failed to get job status: "
                      \o StatusLine(env.status))
     ELSE IF s.top = "getJobStatus"
     THEN Return(s0, Some(env.data))
     ELSE waitForJobCompletion_status([s0 EXCEPT !.pollEnd = s.now], env.data)

\* The answer to the request of getJobStatus; a failed answer is logged with
\* its envelope status.
getJobStatus_response(s, env) ==
  LET s0 == Logged(s, Ev("resp", s.cur,
                         IF env.status \in {200, 202} THEN 0 ELSE env.status,
                         IF env.status \in {200, 202} THEN env.data.status ELSE ""))
  IN IF env.status = ProxyFailed
     THEN Throw(s0, "Failed to get job status: Proxy request failed")
     ELSE IF env.status = 404
     THEN Throw(s0, "Failed to get job status: Job not found or expired: "
                      \o ToString(s.jobId))
     ELSE IF env.status # 200 /\ env.status # 202
     THEN Throw(s0, "Failed to get job status: Failed to get job status: "
                      \o StatusLine(env.status))
     ELSE IF s.top = "getJobStatus"
     THEN Return(s0, Some(env.data))
     ELSE waitForJobCompletion_status([s0 EXCEPT !.pollEnd = s.now], env.data)

\* Variant: the submitted job is handed on without awaiting its completion.
getTableData_job_nowait(s, jobInfo) ==
  IF jobInfo.id = null
  THEN Throw(s, "No job ID returned from query")
  ELSE getTableData_return(s, jobInfo)

\* Variant: completion is awaited even for a job submitted as completed.
getTableData_job_noskip(s, jobInfo) ==
  IF jobInfo.id = null
  THEN Throw(s, "No job ID returned from query")
  ELSE waitForJobCompletion(s, jobInfo.id, DefaultTimeout, DefaultPollInterval)

\* getTableData once queryTableData has returned jobInfo.
getTableData_job(s, jobInfo) ==
  IF jobInfo.id = null
  THEN Throw(s, "No job ID returned from query")
  ELSE IF jobInfo.status = "completed" \/ jobInfo.status = "complete"
  THEN getTableData_return(s, jobInfo)
  ELSE waitForJobCompletion(s, jobInfo.id, DefaultTimeout, DefaultPollInterval)

queryTableData_response(s, env) ==
  LET s0 == Logged(s, Ev("resp", s.cur, env.data.id,
                         IF env.status \in {200, 202} THEN env.data.status ELSE ""))
  IN IF env.status = ProxyFailed
     THEN Throw(s0, "Failed to query table data: Proxy request failed")
     ELSE IF env.status # 200 /\ env.status # 202
     THEN Throw(s0, "Failed to query table data: Failed to query table data: "
                      \o StatusLine(env.status))
     ELSE IF s.top = "queryTableData"
     THEN Return(s0, Some(env.data))
     ELSE getTableData_job(s0, env.data)


\* ---- the Relay (api/proxy.js) ---------------------------------------------------
RelayIdle == [pc |-> "idle"]

RelayUrls ==
  [obj : {1}, s3 : BOOLEAN, signed : BOOLEAN,
   exts : {{}, {".gz"}, {".json"}, {".csv", ".gz"}},
   path : {"", "/dap/job/", "/dap/object/", "/dap/object/url"}]

Origins == {None, Some("https://canvas-dap-web-app.vercel.app")}

RelayRequests ==
  [method : {"OPTIONS", "GET", "POST"}, url : {None} \cup {Some(u) : u \in RelayUrls},
   origin : Origins]

isBinaryDownload(u) ==
  \/ u.exts \cap FileExtensions # {}
  \/ u.path = "/dap/object/url"
  \/ u.path \in {"/dap/object/", "/dap/object/url"}     \* includes('/dap/object/')

\* The handler has answered: the HTTP status of its answer, the envelope in
\* the answer's body (None for an answer without one), and the upstream response
\* its outbound call got (None when it made no call).
\* errorCode is the code field of an error body; allowOrigin and
\* allowCredentials are the CORS headers the handler sets before anything else.
Answer(req, code, envelope, upstream) ==
  [pc |-> "answered", req |-> req, code |-> code, envelope |-> envelope,
   outbound |-> upstream # None, upstream |-> upstream,
   errorCode |-> None,
   allowOrigin |-> Some("*"), allowCredentials |-> FALSE]

\* The answer of the catch block to an axios error of code ECONNABORTED.
TimeoutAnswer(req, upstream) ==
  [Answer(req, 504, None, upstream) EXCEPT !.errorCode = Some("TIMEOUT")]

RedirectEnvelope(u) ==
  [redirect |-> Some(u), status |-> 302, data |-> None, isBinary |-> FALSE]

\* Variant: every envelope reports success.
Envelope_ok(data, status, binary) ==
  [redirect |-> None, status |-> 200, data |-> Some(data), isBinary |-> binary]

Envelope(data, status, binary) ==
  [redirect |-> None, status |-> status, data |-> Some(data), isBinary |-> binary]

\* Variant: a pre-signed object-storage url is fetched like any other.
proxy_fetch(req) ==
  IF req.method = "OPTIONS" THEN Answer(req, 200, None, None)
  ELSE IF req.method # "POST" THEN Answer(req, 405, None, None)
  ELSE IF req.url = None THEN Answer(req, 400, None, None)
  ELSE [pc |-> "upstream", req |-> req,
        responseType |-> IF isBinaryDownload(req.url[1]) THEN "arraybuffer" ELSE "json"]

\* The handler up to its axios call.
proxy(req) ==
  IF req.method = "OPTIONS" THEN Answer(req, 200, None, None)
  ELSE IF req.method # "POST" THEN Answer(req, 405, None, None)
  ELSE IF req.url = None THEN Answer(req, 400, None, None)
  ELSE IF isS3FileDownload(req.url[1])
  THEN Answer(req, 200, Some(RedirectEnvelope(req.url[1])), None)
  ELSE [pc |-> "upstream", req |-> req,
        responseType |-> IF isBinaryDownload(req.url[1]) THEN "arraybuffer" ELSE "json"]

ContentTypes == {"application/json", "application/octet-stream", "text/plain", ""}
BinaryContentTypes == {"application/octet-stream", "application/gzip", "application/zip",
                       "application/x-gzip", "application/parquet"}

\* Bodies that are not text.
BinaryBodies ==
  {[prefix |-> "", kind |-> "binary", key |-> "", name |-> b] :
     b \in {<<>>, <<31, 139>>, <<128>>}}

\* The codes of the errors axios rejects with: the timeout of the request
\* configuration elapsed, the status was 500 or more, the network failed.
AxiosErrors == {"ECONNABORTED", "ERR_BAD_RESPONSE", "ERR_NETWORK"}

\* What the upstream server sends back: a status below 500 with a body, or
\* nothing axios accepts.
Upstreams ==
  [ok : {TRUE}, status : {200, 304, 404}, contentType : ContentTypes,
   body : {toBytes(x) : x \in Texts} \cup BinaryBodies]
  \cup [ok : {FALSE}, code : AxiosErrors]

\* response.data as axios hands it over for the responseType asked for.
axios_data(responseType, body) ==
  IF responseType = "arraybuffer" THEN [buffer |-> body]
  ELSE LET parsed == JSONparse(toString(body))
       IN IF parsed = None THEN [string |-> toString(body)] ELSE parsed[1]

\* Variant: a timeout is reported like any other failure.
proxy_catch_generic(r, up) == Answer(r.req, 500, None, Some(up))

\* The catch block, entered with the error axios rejected with.
proxy_catch(r, up) ==
  IF up.code = "ECONNABORTED"
  THEN TimeoutAnswer(r.req, Some(up))
  ELSE Answer(r.req, 500, None, Some(up))

\* The handler from the return of its axios call: the classification of the
\* response and the envelope built from it.
proxy_response(r, up) ==
  LET u == r.req.url[1]
      data == axios_data(r.responseType, up.body)
      isJsonResponse == \/ up.contentType = "application/json"
                        \/ IsObject(data) /\ ~IsBuffer(data)
      isBinaryResponse == \/ up.contentType \in BinaryContentTypes
                          \/ isBinaryDownload(u)
                          \/ IsBuffer(data)
      jsonData == IF IsBuffer(data)
                  THEN LET converted == JSONparse(toString(data.buffer))
                       IN IF converted = None THEN data ELSE converted[1]
                  ELSE data
  IN IF ~up.ok THEN proxy_catch(r, up)
     ELSE IF isJsonResponse /\ ~isBinaryResponse
     THEN Answer(r.req, 200, Some(Envelope(jsonData, up.status, FALSE)), Some(up))
     ELSE IF isBinaryResponse
     THEN IF IsObject(data)
          THEN Answer(r.req, 500, None, Some(up))       \* Buffer.from(object) throws
          ELSE LET buffer == IF IsBuffer(data) THEN data.buffer ELSE toBytes(data.string)
                   textContent == toString(buffer)
                   parsed == JSONparse(textContent)
               IN IF /\ u.path = "/dap/object/url"
                     /\ startsWithBrace(textContent) /\ includesUrls(textContent)
                     /\ parsed # None
                  THEN Answer(r.req, 200, Some(Envelope(parsed[1], up.status, FALSE)),
                              Some(up))
                  ELSE Answer(r.req, 200,
                              Some(Envelope([array |-> buffer], up.status, TRUE)),
                              Some(up))
     ELSE Answer(r.req, 200, Some(Envelope(data, up.status, FALSE)), Some(up))


\* ---- the state machine -----------------------------------------------------------
Init ==
  /\ clientId \in BOOLEAN /\ clientSecret \in BOOLEAN
  /\ accessToken = null /\ tokenExpiry = null
  /\ now = 0
  /\ job = [status |-> "pending", error |-> None, objects |-> None]
  /\ top = "none" /\ cur = "none" /\ pc = "idle"
  /\ log = <<>> /\ outcome = NoOutcome
  /\ jobId = 0 /\ timeout = 0 /\ pollInterval = 0 /\ startTime = 0
  /\ pollStart = 0 /\ pollEnd = 0
  /\ objectIds = <<>> /\ urlInfo = <<>> /\ objIdx = 0 /\ files = <<>>
  /\ dlUrl = None /\ delivered = None
  /\ args = None /\ query = DefaultQuery /\ payload = None
  /\ waiting = [c \in 1..MaxCallers |-> FALSE] /\ granted = {}
  /\ flight = [c \in 1..MaxCallers |-> NotCalled]
  /\ handler = NotClicked /\ created = 0
  /\ relay = RelayIdle

\* The state in which the page calls method t: nothing of an earlier call is left.
Fresh(t) ==
  [St EXCEPT !.top = t, !.cur = "none", !.pc = "idle", !.log = <<>>,
             !.outcome = NoOutcome,
             !.jobId = 0, !.timeout = 0, !.pollInterval = 0, !.startTime = 0,
             !.pollStart = 0, !.pollEnd = 0,
             !.objectIds = <<>>, !.urlInfo = <<>>, !.objIdx = 0, !.files = <<>>,
             !.dlUrl = None, !.delivered = None,
             !.args = None, !.query = DefaultQuery, !.payload = None]

\* The state when an answer arrives d seconds after the request was sent.
After(d) == [St EXCEPT !.now = now + d]

Latencies == {d \in 0..MaxLatency : now + d <= MaxTime}

\* The page stores the credentials typed by the user.
SetCredentials ==
  /\ pc = "idle" /\ ~(clientId /\ clientSecret)
  /\ Set([St EXCEPT !.clientId = TRUE, !.clientSecret = TRUE])

Tick ==
  /\ pc = "idle" /\ now < MaxTime
  /\ Set([St EXCEPT !.now = now + 1])

\* The page's handler takes the result of the call it awaited.
Settle ==
  /\ pc = "done"
  /\ Set(Fresh("none"))

CallAuthenticate ==
  /\ pc = "idle"
  /\ Set(authenticate([Fresh("authenticate") EXCEPT !.cur = "authenticate"]))

CallGetTables ==
  /\ pc = "idle"
  /\ Set(Enter(Fresh("getTables"), "getTables"))

CallGetTableSchema ==
  /\ pc = "idle"
  /\ Set(Enter(Fresh("getTableSchema"), "getTableSchema"))

CallQueryTableData ==
  /\ pc = "idle"
  /\ Set(Enter(Fresh("queryTableData"), "queryTableData"))

\* What the page passes to the builders, and the descriptors it makes by hand.
Formats == {Str("jsonl"), Str("csv")}
SinceValues ==
  {Undefined, JsNull, Str(""), Str("2024-01-01T00:00:00Z"), Date(0), Date(1500), Date(NaN)}
UntilValues == {JsNull, Str("2024-02-01T00:00:00Z"), Date(59999), Date(NaN)}
ModeValues == {JsNull, Str("expanded")}
HandmadeQueries ==
  [format : {Some(Str("csv"))},
   since : {None, Some(JsNull), Some(Str("2024-01-01T00:00:00Z"))},
   until : {None, Some(Str("2024-02-01T00:00:00Z"))},
   mode : {None, Some(Str("expanded"))},
   type : {None, Some(Str("incremental"))}]

Arguments(builder, format, since, until, mode) ==
  Some([builder |-> builder, format |-> format, since |-> since, until |-> until,
        mode |-> mode])

\* The page builds a snapshot query and submits it.
CallSnapshotQuery ==
  /\ pc = "idle"
  /\ \E f \in Formats, m \in ModeValues :
       Set(Enter([Fresh("queryTableData") EXCEPT
                    !.args = Arguments("createSnapshotQuery", f, Undefined, Undefined, m),
                    !.query = createSnapshotQuery(f, m)],
                 "queryTableData"))

\* The page builds an incremental query and, unless the builder threw,
\* submits it.
CallIncrementalQuery ==
  /\ pc = "idle"
  /\ \E f \in Formats, since \in SinceValues, until \in UntilValues, m \in ModeValues :
       LET built == createIncrementalQuery(f, since, until, m)
           a == Arguments("createIncrementalQuery", f, since, until, m)
       IN IF built = None
          THEN Set(Throw([Fresh("createIncrementalQuery") EXCEPT !.args = a],
                         "RangeError: Invalid time value"))
          ELSE Set(Enter([Fresh("queryTableData") EXCEPT !.args = a, !.query = built[1]],
                         "queryTableData"))

\* The page submits a descriptor it made itself.
CallQueryTableDataWith ==
  /\ pc = "idle"
  /\ \E q \in HandmadeQueries :
       Set(Enter([Fresh("queryTableData") EXCEPT !.query = q], "queryTableData"))

CallGetJobStatus ==
  /\ pc = "idle"
  /\ Set(Enter([Fresh("getJobStatus") EXCEPT !.jobId = 1], "getJobStatus"))

CallGetDownloadUrls ==
  /\ pc = "idle"
  /\ \E k \in 1..MaxObjects :
       Set(Enter([Fresh("getDownloadUrls") EXCEPT !.objectIds = [i \in 1..k |-> i]],
                 "getDownloadUrls"))

CallWaitForJobCompletion ==
  /\ pc = "idle"
  /\ \E tmo \in 0..MaxTimeout, poll \in 1..MaxPollInterval :
       Set(waitForJobCompletion(Fresh("waitForJobCompletion"), 1, tmo, poll))

CallGetTableData ==
  /\ pc = "idle"
  /\ Set(Enter(Fresh("getTableData"), "queryTableData"))

CallDownloadTableData ==
  /\ pc = "idle"
  /\ Set(Enter(Fresh("downloadTableData"), "queryTableData"))

\* The urls downloadFile is called with.
FileUrls ==
  {S3Signed(1), S3Plain(1), OtherHost(1), S3SignedArchive(1)}

CallDownloadFile ==
  /\ pc = "idle"
  /\ \E u \in FileUrls : Set(downloadFile(Fresh("downloadFile"), u))

\* A token the vendor has not handed out before: it differs from the stored one.
NewToken == IF accessToken = 1 THEN 2 ELSE 1

\* The token endpoint answers: a fresh token on 200, nothing otherwise.
AuthResponse ==
  /\ pc = "authWait"
  /\ \E d \in Latencies :
       \/ \E e \in 0..MaxExpiresIn :
            Set(authenticate_response(
                  After(d), [status |-> 200, access_token |-> NewToken, expires_in |-> e]))
       \/ \E st \in {ProxyFailed, 401} :
            Set(authenticate_response(
                  After(d), [status |-> st, access_token |-> null, expires_in |-> 0]))

\* The method resumes after `await this.ensureAuthenticated()`.
SendRequest ==
  /\ pc = "send"
  /\ Set(makeProxyRequest(St))

TablesResponse ==
  /\ pc = "reqWait" /\ cur = "getTables"
  /\ \E d \in Latencies, st \in EnvelopeStatuses :
       Set(getTables_response(After(d), [status |-> st, data |-> <<Table>>]))

SchemaResponse ==
  /\ pc = "reqWait" /\ cur = "getTableSchema"
  /\ \E d \in Latencies, st \in EnvelopeStatuses :
       Set(getTableSchema_response(After(d), [status |-> st, data |-> <<Table>>]))

\* The vendor creates a job, in whatever state, and answers with it.
QueryResponse ==
  /\ pc = "reqWait" /\ cur = "queryTableData"
  /\ \E d \in Latencies :
       \/ \E j \in VendorJobs, id \in {null, 1}, st \in {200, 202} :
            Set(queryTableData_response(
                  [After(d) EXCEPT !.job = j], [status |-> st, data |-> JobData(j, id)]))
       \/ \E st \in EnvelopeStatuses \ {200, 202} :
            Set(queryTableData_response(
                  After(d), [status |-> st, data |-> JobData(job, null)]))

\* The vendor answers a job-status request with the job as it is by then.
\* The submission is answered for the job as it is, whatever was asked.
QueryAnswer ==
  /\ pc = "reqWait" /\ cur = "queryTableData"
  /\ \E d \in Latencies, st \in EnvelopeStatuses :
       Set(queryTableData_response(After(d), [status |-> st, data |-> JobData(job, 1)]))

JobStatusResponse ==
  /\ pc = "reqWait" /\ cur = "getJobStatus"
  /\ \E d \in Latencies :
       \/ \E j \in Evolve(job), st \in {200, 202} :
            Set(getJobStatus_response(
                  [After(d) EXCEPT !.job = j], [status |-> st, data |-> JobData(j, 1)]))
       \/ \E st \in EnvelopeStatuses \ {200, 202} :
            Set(getJobStatus_response(
                  After(d), [status |-> st, data |-> JobData(job, null)]))

\* Statuses of a status answer that the client has no branch for: one it does
\* not know, and the one read from an answer without a status.
OddStatuses == {"queued", "undefined"}

OddStatusResponse ==
  /\ pc = "reqWait" /\ cur = "getJobStatus" /\ job.status \notin TerminalStatuses
  /\ \E d \in Latencies, st \in OddStatuses :
       Set(getJobStatus_response(
             After(d), [status |-> 200, data |-> [JobData(job, 1) EXCEPT !.status = st]]))

UrlsResponse ==
  /\ pc = "reqWait" /\ cur = "getDownloadUrls"
  /\ \E d \in Latencies, st \in EnvelopeStatuses :
       \E u \in {None} \cup {Some(m) : m \in UrlMappings(objectIds)} :
         Set(getDownloadUrls_response(After(d), [status |-> st, data |-> [urls |-> u]]))

\* The URL-resolution answer as a document: the Relay hands on the parsed
\* JSON, or the bytes of the body as an array of numbers.
UrlsDocuments ==
  {[array |-> toBytes(x)] : x \in Texts}
  \cup {JSONparse(x)[1] : x \in {y \in Texts : JSONparse(y) # None}}

UrlsDocumentResponse ==
  /\ pc = "reqWait" /\ cur = "getDownloadUrls"
  /\ \E d \in Latencies, st \in EnvelopeStatuses, data \in UrlsDocuments :
       Set([getDownloadUrls_response(After(d), [status |-> st, data |-> data])
              EXCEPT !.delivered = Some(data)])

\* The vendor's job moves on between two polls.
JobProgresses ==
  /\ pc = "sleep"
  /\ \E j \in Evolve(job) \ {job} : Set([St EXCEPT !.job = j])

\* The poll timer fires pollInterval seconds after it was set.
Wake ==
  /\ pc = "sleep" /\ now + pollInterval <= MaxTime
  /\ Set(waitForJobCompletion_loop(After(pollInterval)))

\* The object store answers the browser's direct fetch.
DirectFetchResponse ==
  /\ pc = "directWait"
  /\ \E d \in Latencies, ok \in BOOLEAN :
       Set(directFetch_response(After(d), ok, ObjectBytes(dlUrl[1].obj)))

\* The envelopes the Relay can answer a download of url with.
RelayDownload(url) ==
  IF isS3FileDownload(url)
  THEN {[status |-> 302, redirect |-> Some(url), data |-> <<>>],
        [status |-> ProxyFailed, redirect |-> None, data |-> <<>>]}
  ELSE {[status |-> st, redirect |-> None, data |-> ObjectBytes(url.obj)] :
          st \in {ProxyFailed, 200, 404}}

DownloadResponse ==
  /\ pc = "dlWait"
  /\ \E d \in Latencies, env \in RelayDownload(dlUrl[1]) :
       Set(downloadFile_response(After(d), env))

\* The bytes a file can hold, and the files of at most MaxLen bytes.
ByteValues == {0, 127, 128, 255}
ByteSeqs == UNION {[1..n -> ByteValues] : n \in 0..MaxLen}

\* The Relay answers a download it has fetched with the binary envelope made
\* of the bytes b of the file.
BinaryDownloadResponse ==
  /\ pc = "dlWait" /\ ~isS3FileDownload(dlUrl[1])
  /\ \E d \in Latencies, b \in ByteSeqs :
       Set([downloadFile_response(
              After(d), [status |-> 200, redirect |-> None,
                         data |-> responseJson(jsonBody(byteArray(b)))])
              EXCEPT !.delivered = Some(b)])

Next ==
  \/ SetCredentials \/ Tick \/ Settle
  \/ CallAuthenticate \/ CallGetTables \/ CallGetTableSchema \/ CallQueryTableData
  \/ CallGetJobStatus \/ CallGetDownloadUrls \/ CallWaitForJobCompletion
  \/ CallGetTableData \/ CallDownloadTableData \/ CallDownloadFile
  \/ AuthResponse \/ SendRequest
  \/ TablesResponse \/ SchemaResponse \/ QueryResponse \/ JobStatusResponse
  \/ UrlsResponse \/ Wake \/ DirectFetchResponse \/ DownloadResponse

Spec == Init /\ [][Next]_vars


\* ---- the page restricted to one kind of call ---------------------------------
Environment == SetCredentials \/ Tick \/ Settle \/ AuthResponse \/ SendRequest

\* Only authenticate and the five token-gated requests are called.
NextGated ==
  \/ Environment
  \/ CallAuthenticate
  \/ CallGetTables \/ CallGetTableSchema \/ CallQueryTableData
  \/ CallGetJobStatus \/ CallGetDownloadUrls
  \/ TablesResponse \/ SchemaResponse \/ QueryResponse \/ JobStatusResponse
  \/ UrlsResponse

SpecGated == Init /\ [][NextGated]_vars

\* Only waitForJobCompletion is called.
NextWait == Environment \/ CallWaitForJobCompletion \/ JobStatusResponse \/ Wake

SpecWait == Init /\ [][NextWait]_vars

\* Only getTableData is called.
NextData ==
  Environment \/ CallGetTableData \/ QueryResponse \/ JobStatusResponse \/ Wake

SpecData == Init /\ [][NextData]_vars

\* Only downloadTableData and downloadFile are called.
NextDownload ==
  \/ Environment
  \/ CallDownloadFile
  \/ CallDownloadTableData \/ QueryResponse \/ JobStatusResponse \/ Wake
  \/ UrlsResponse \/ DirectFetchResponse \/ DownloadResponse

SpecDownload == Init /\ [][NextDownload]_vars

\* Only queryTableData is called, with descriptors of every make.
NextQuery ==
  \/ Environment
  \/ CallSnapshotQuery \/ CallIncrementalQuery \/ CallQueryTableDataWith
  \/ QueryAnswer

SpecQuery == Init /\ [][NextQuery]_vars

\* Only downloadFile is called, for files of any bytes.
NextFile ==
  \/ Tick \/ Settle \/ CallDownloadFile
  \/ DirectFetchResponse \/ DownloadResponse \/ BinaryDownloadResponse

SpecFile == Init /\ [][NextFile]_vars

\* getDownloadUrls and downloadTableData are called, and the url resolution is
\* answered with documents.
NextDocuments ==
  \/ Environment
  \/ CallGetDownloadUrls \/ CallDownloadTableData
  \/ QueryResponse \/ JobStatusResponse \/ Wake
  \/ UrlsDocumentResponse \/ DownloadResponse

SpecDocuments == Init /\ [][NextDocuments]_vars

\* Only waitForJobCompletion is called, and the job moves on at the vendor
\* while the call sleeps.
NextDeadline == NextWait \/ JobProgresses

SpecDeadline == Init /\ [][NextDeadline]_vars

\* One call of waitForJobCompletion, made at any time; the status answers may
\* carry a status the client does not know, or none.  Every request is
\* answered, the continuation of an awaited call runs, and every timer fires.
NextPoll ==
  \/ SetCredentials \/ Tick \/ AuthResponse \/ SendRequest
  \/ CallWaitForJobCompletion \/ JobStatusResponse \/ OddStatusResponse \/ Wake

FairPoll ==
  /\ WF_vars(AuthResponse) /\ WF_vars(SendRequest)
  /\ WF_vars(JobStatusResponse \/ OddStatusResponse)
  /\ WF_vars(Wake)

SpecPoll == Init /\ [][NextPoll]_vars /\ FairPoll

\* Only getDownloadUrls is called, and it is answered with documents.
NextResolve == Environment \/ CallGetDownloadUrls \/ UrlsDocumentResponse

SpecResolve == Init /\ [][NextResolve]_vars


\* ---- the page's Run Query handler ------------------------------------------------
\* The objects of the n-th job the vendor has created.
OfJob(j, n) ==
  IF j.objects = None THEN j
  ELSE [j EXCEPT !.objects = Some([i \in DOMAIN j.objects[1] |-> 10 * n + i])]

\* The click: the handler awaits getTableSchema.
RunQuery ==
  /\ pc = "idle" /\ handler.step = "none" /\ clientId /\ clientSecret
  /\ Set(Enter([Fresh("getTableSchema") EXCEPT
                  !.handler = [step |-> "getTableSchema", jobInfo |-> None]],
               "getTableSchema"))

\* Variant: the handler hands the job it has to the download.
RunQueryContinues_sameJob ==
  /\ pc = "done" /\ handler.step \notin {"none", "over"}
  /\ IF outcome.kind = "throw" \/ handler.step = "downloadTableData"
     THEN Set([St EXCEPT !.handler.step = "over"])
     ELSE IF handler.step = "getTableSchema"
     THEN Set(Enter([Fresh("getTableData") EXCEPT !.handler.step = "getTableData"],
                    "queryTableData"))
     ELSE Set(downloadTableData_job(
                [Fresh("downloadTableData") EXCEPT
                   !.handler = [step |-> "downloadTableData", jobInfo |-> outcome.val]],
                outcome.val[1]))

\* The handler resumes after the call it awaited: an exception ends it, the
\* schema is followed by getTableData, whose job is kept in jobInfo and
\* followed by downloadTableData, whose files end the handler.
RunQueryContinues ==
  /\ pc = "done" /\ handler.step \notin {"none", "over"}
  /\ IF outcome.kind = "throw" \/ handler.step = "downloadTableData"
     THEN Set([St EXCEPT !.handler.step = "over"])
     ELSE IF handler.step = "getTableSchema"
     THEN Set(Enter([Fresh("getTableData") EXCEPT !.handler.step = "getTableData"],
                    "queryTableData"))
     ELSE Set(Enter([Fresh("downloadTableData") EXCEPT
                       !.handler = [step |-> "downloadTableData", jobInfo |-> outcome.val]],
                    "queryTableData"))

\* The vendor creates a job for the submission and answers with it.
JobCreated ==
  /\ pc = "reqWait" /\ cur = "queryTableData"
  /\ \E d \in Latencies :
       \/ \E j \in VendorJobs :
            LET new == OfJob(j, created + 1)
            IN Set(queryTableData_response(
                     [After(d) EXCEPT !.job = new, !.created = created + 1],
                     [status |-> 200, data |-> JobData(new, created + 1)]))
       \/ Set(queryTableData_response(
                After(d), [status |-> 500, data |-> JobData(job, null)]))

\* The vendor answers a status request with the job asked for as it is by then.
JobStatusOf ==
  /\ pc = "reqWait" /\ cur = "getJobStatus"
  /\ \E d \in Latencies :
       \/ \E j \in Evolve(job) :
            LET next == IF job.status \in TerminalStatuses THEN job ELSE OfJob(j, jobId)
            IN Set(getJobStatus_response(
                     [After(d) EXCEPT !.job = next],
                     [status |-> 200, data |-> JobData(next, jobId)]))
       \/ Set(getJobStatus_response(
                After(d), [status |-> 404, data |-> JobData(job, null)]))

\* The vendor resolves every object asked for to a url of its own.
UrlsOfObjects ==
  /\ pc = "reqWait" /\ cur = "getDownloadUrls"
  /\ LET urls == [i \in DOMAIN objectIds |->
                   [id |-> objectIds[i], url |-> Some(OtherHost(objectIds[i])),
                    filename |-> Some(FileName(objectIds[i]))]]
     IN Set(getDownloadUrls_response(St, [status |-> 200, data |-> [urls |-> Some(urls)]]))

NextRunQuery ==
  \/ SetCredentials \/ AuthResponse \/ SendRequest
  \/ RunQuery \/ RunQueryContinues
  \/ SchemaResponse \/ JobCreated \/ JobStatusOf \/ Wake
  \/ UrlsOfObjects \/ DownloadResponse

SpecRunQuery == Init /\ [][NextRunQuery]_vars


\* ---- the Relay handling requests ------------------------------------------------
RelayRequest ==
  /\ relay.pc = "idle"
  /\ \E req \in RelayRequests : Set([St EXCEPT !.relay = proxy(req)])

RelayUpstream ==
  /\ relay.pc = "upstream"
  /\ \E up \in Upstreams : Set([St EXCEPT !.relay = proxy_response(relay, up)])

\* The answer has been sent; the next request finds a new handler.
RelayDone ==
  /\ relay.pc = "answered"
  /\ Set([St EXCEPT !.relay = RelayIdle])

NextRelay == RelayRequest \/ RelayUpstream \/ RelayDone

SpecRelay == Init /\ [][NextRelay]_vars


\* ---- concurrent callers of the Token Manager -----------------------------------
\* The client object as a caller other than the page's awaited call enters it:
\* the same fields, a call frame of its own.
Frame(t) == [Fresh(t) EXCEPT !.cur = t]

\* What a caller's run leaves in the object, and whether the caller is left
\* waiting for the token endpoint.
Shared(s, c) ==
  [St EXCEPT !.accessToken = s.accessToken, !.tokenExpiry = s.tokenExpiry,
             !.now = s.now, !.waiting[c] = (s.pc = "authWait")]

ConcurrentEnsure(c) ==
  /\ ~waiting[c]
  /\ Set(Shared(ensureAuthenticated(Frame("ensureAuthenticated")), c))

ConcurrentAuthenticate(c) ==
  /\ ~waiting[c]
  /\ Set(Shared(authenticate(Frame("authenticate")), c))

\* The token endpoint answers caller c; every token it hands out is new.
ConcurrentAuthResponse(c) ==
  /\ waiting[c]
  /\ \E d \in Latencies :
       LET frame == [Frame("authenticate") EXCEPT !.now = now + d, !.pc = "authWait"]
       IN \/ /\ Cardinality(granted) < MaxTokens
             /\ \E e \in 0..MaxExpiresIn :
                  LET env == [status |-> 200, access_token |-> Cardinality(granted) + 1,
                              expires_in |-> e]
                  IN Set([Shared(authenticate_response(frame, env), c) EXCEPT
                            !.granted = @ \cup {[access_token |-> env.access_token,
                                                 expires_in |-> e, at |-> now + d]}])
          \/ \E st \in {ProxyFailed, 401} :
               Set(Shared(authenticate_response(
                            frame, [status |-> st, access_token |-> null,
                                    expires_in |-> 0]), c))

NextCallers ==
  \/ SetCredentials \/ Tick
  \/ \E c \in 1..MaxCallers :
       ConcurrentEnsure(c) \/ ConcurrentAuthenticate(c) \/ ConcurrentAuthResponse(c)

SpecCallers == Init /\ [][NextCallers]_vars


\* ---- concurrent token-gated operations -------------------------------------------
\* What a run of operation c leaves: the fields of the object, the request it
\* handed to fetch, and where the operation is suspended (`failed` once it
\* has thrown).
Suspended(s, c, token) ==
  [St EXCEPT !.accessToken = s.accessToken, !.tokenExpiry = s.tokenExpiry,
             !.now = s.now, !.payload = s.payload,
             !.flight[c] = [pc |-> IF s.pc = "done" THEN "failed" ELSE s.pc,
                            token |-> token]]

\* The page calls getTables while other operations are in flight; each caller
\* makes one call.
Operation(c) ==
  /\ flight[c].pc = "none"
  /\ Set(Suspended(Enter(Fresh("getTables"), "getTables"), c, null))

\* The token endpoint answers operation c; every token it hands out is new.
OperationAuthResponse(c) ==
  /\ flight[c].pc = "authWait"
  /\ \E d \in Latencies :
       LET frame == [Fresh("getTables") EXCEPT
                       !.cur = "getTables", !.now = now + d, !.pc = "authWait"]
       IN \/ /\ Cardinality(granted) < MaxTokens
             /\ \E e \in 0..MaxExpiresIn :
                  LET env == [status |-> 200, access_token |-> Cardinality(granted) + 1,
                              expires_in |-> e]
                  IN Set([Suspended(authenticate_response(frame, env), c, null) EXCEPT
                            !.granted = @ \cup {[access_token |-> env.access_token,
                                                 expires_in |-> e, at |-> now + d]}])
          \/ \E st \in {ProxyFailed, 401} :
               Set(Suspended(authenticate_response(
                               frame, [status |-> st, access_token |-> null,
                                       expires_in |-> 0]), c, null))

\* Operation c resumes after `await this.ensureAuthenticated()` and sends its
\* request with the token stored at that moment.
OperationSend(c) ==
  /\ flight[c].pc = "send"
  /\ LET s == makeProxyRequest(
                [Fresh("getTables") EXCEPT !.cur = "getTables", !.pc = "send"])
     IN Set(Suspended(s, c, s.payload[1].authorization[1].value))

NextOperations ==
  \/ SetCredentials \/ Tick
  \/ \E c \in 1..MaxCallers :
       Operation(c) \/ OperationAuthResponse(c) \/ OperationSend(c)

SpecOperations == Init /\ [][NextOperations]_vars


\* ---- reading the log -----------------------------------------------------------
Last(q) == q[Len(q)]
Events(e) == {i \in DOMAIN log : log[i].ev = e}
Finished == pc = "done"
Returned == pc = "done" /\ outcome.kind = "return"
Threw(msg) == pc = "done" /\ outcome.kind = "throw" /\ outcome.err = msg
\* the job status the poll in the log has observed, if it has
Observed == {i \in Events("resp") : log[i].op = "getJobStatus" /\ log[i].s # ""}
TimedOutMessage == "Job timed out after " \o ToString(timeout) \o " seconds"

\* ---- C1 ----------------------------------------------------------------------------
\* C1 as stated: waitForJobCompletion returns a job only when the status a
\* poll observed is `completed`.  The code also returns on `complete`.
C1_ReturnsOnlyCompleted ==
  (top = "waitForJobCompletion" /\ Returned) =>
     /\ log # <<>> /\ Last(log).ev = "resp" /\ Last(log).s = "completed"
     /\ outcome.val[1].status = "completed"

\* C1 amended: waitForJobCompletion returns a job only when the status its
\* latest poll observed is `completed` or `complete`, and the job it returns
\* is the one that poll observed; on an observed `failed` it has raised, and
\* on any other observed status it is sleeping before the next round (or,
\* after that sleep, has raised JobTimedOut).
C1_ReturnsOnlyCompletedOrComplete ==
  top = "waitForJobCompletion" =>
     /\ Returned =>
          /\ log # <<>> /\ Last(log).ev = "resp" /\ Last(log).op = "getJobStatus"
          /\ Last(log).s \in {"completed", "complete"}
          /\ outcome.val[1].status = Last(log).s
     /\ \A i \in Observed :
          /\ log[i].s \in {"completed", "complete"} => Returned
          /\ log[i].s = "failed" => pc = "done" /\ outcome.kind = "throw"
          /\ log[i].s \notin TerminalStatuses =>
               /\ i < Len(log) /\ log[i + 1].ev = "sleep"
               /\ pc = "sleep" \/ Threw(TimedOutMessage)

C1_Witness ==
  /\ top = "waitForJobCompletion" /\ Returned
  /\ pollStart > startTime
  /\ outcome.val[1].status = "complete"

\* ---- C2 ----------------------------------------------------------------------------
\* C2: once a poll of waitForJobCompletion has observed `failed`, the call has
\* raised JobFailed: the observation is the last thing the call did, so no
\* sleep and no further job-status request follows it.
C2_FailedRaisesAtOnce ==
  top = "waitForJobCompletion" =>
    \A i \in Observed :
      log[i].s = "failed" =>
        /\ i = Len(log)
        /\ pc = "done" /\ outcome.kind = "throw"
        /\ outcome.at = pollEnd
        /\ \E e \in {"Unknown error"} \cup ErrorStrings : outcome.err = "Job failed: " \o e

C2_Witness ==
  /\ top = "waitForJobCompletion" /\ pollStart > startTime
  /\ log # <<>> /\ Last(log).ev = "resp" /\ Last(log).s = "failed"
  /\ Finished

\* ---- C3 ----------------------------------------------------------------------------
\* C3 as stated: JobTimedOut is raised no later than timeout + pollInterval
\* after the call started, whatever the latency of the status requests.
C3_TimesOutWithinOnePollInterval ==
  (top = "waitForJobCompletion" /\ Threw(TimedOutMessage)) =>
     outcome.at - startTime <= timeout + pollInterval

\* C3 amended: when every poll succeeds and observes a non-terminal status,
\* waitForJobCompletion raises JobTimedOut; it does so no sooner than timeout
\* after the call started and sooner than timeout + pollInterval + the time its
\* last poll took (the status request and the authentication it may have
\* needed) after the call started.
C3_TimesOutWithinOnePollRound ==
  top = "waitForJobCompletion" =>
     /\ (Finished /\ (log = <<>> \/ Last(log).ev = "sleep")) => Threw(TimedOutMessage)
     /\ Threw(TimedOutMessage) =>
          /\ log = <<>> \/ Last(log).ev = "sleep"
          /\ \A i \in Observed : log[i].s \notin TerminalStatuses
          /\ outcome.at - startTime >= timeout
          /\ outcome.at - startTime < timeout + pollInterval + (pollEnd - pollStart)

C3_Witness ==
  /\ top = "waitForJobCompletion" /\ Threw(TimedOutMessage)
  /\ log # <<>>
  /\ outcome.at - startTime > timeout + pollInterval


\* ---- C4 ----------------------------------------------------------------------------
MissingCredentials == "Client ID and Client Secret are required"

\* C4: a token-gated method that finds a token stored with now < tokenExpiry
\* gets that token from ensureAuthenticated without any authentication
\* request; one that finds no token, or now >= tokenExpiry, has authenticate
\* called (which sends the authentication request, or fails for want of
\* credentials) and gets the token of the authentication response; whenever
\* ensureAuthenticated has returned, the token it returned is the stored one
\* and now < tokenExpiry.
C4_TokenValidOnlyBeforeExpiry ==
  /\ (log # <<>> /\ log[1].ev = "call") =>
       /\ log[1].n = 0 =>
            /\ Len(log) >= 2 /\ log[2].ev = "ensure.ret"
            /\ Events("auth.req") = {}
       /\ log[1].n # 0 =>
            \/ Len(log) = 1 /\ Threw(MissingCredentials) /\ ~(clientId /\ clientSecret)
            \/ Len(log) >= 2 /\ log[2].ev = "auth.req"
       /\ \A i \in Events("ensure.ret") :
            \/ i = 2 /\ log[1].n = 0
            \/ i = 4 /\ log[3].ev = "auth.resp" /\ log[3].n # null /\ log[4].n = log[3].n
  /\ pc = "send" =>
       /\ Last(log).ev = "ensure.ret" /\ Last(log).n = accessToken
       /\ accessToken # null /\ tokenExpiry # null /\ now < tokenExpiry

C4_Witness ==
  /\ pc = "send" /\ log[1].ev = "call" /\ log[1].n = 1
  /\ Len(log) = 4 /\ log[4].n = accessToken

\* ---- C5 ----------------------------------------------------------------------------
\* C5: a token-gated method sends its vendor request only right after its own
\* ensureAuthenticated has returned, with the token that call returned; when
\* the method was started with a stored token at or past its expiry (or with
\* credentials and no token), exactly one authentication request is issued and
\* its successful answer precedes the vendor request.
C5_OneReauthenticationBeforeRequest ==
  (log # <<>> /\ log[1].ev = "call") =>
     /\ \A i \in Events("req") :
          /\ i > 1 /\ log[i - 1].ev = "ensure.ret"
          /\ log[i - 1].op = log[i].op /\ log[i - 1].n = log[i].n
     /\ log[1].n = 1 => clientId /\ clientSecret
     /\ (log[1].n # 0 /\ clientId /\ clientSecret) =>
          /\ Cardinality(Events("auth.req")) = 1 /\ log[2].ev = "auth.req"
          /\ \A i \in Events("req") : log[3].ev = "auth.resp" /\ log[3].n # null /\ i = 5

C5_Witness ==
  /\ top = "getJobStatus" /\ Returned
  /\ log[1].ev = "call" /\ log[1].n = 1
  /\ Events("req") # {}


\* ---- C6 ----------------------------------------------------------------------------
\* The stage downloadTableData is in: 1 submission, 2 polling, 3 URL
\* resolution, 4 byte download, 0 before the call and after it has ended.
Stage ==
  IF top # "downloadTableData" THEN 0
  ELSE IF pc \in {"directWait", "dlWait"} THEN 4
  ELSE IF pc = "sleep" THEN 2
  ELSE IF cur = "queryTableData" THEN 1
  ELSE IF cur = "getJobStatus" THEN 2
  ELSE IF cur = "getDownloadUrls" THEN 3
  ELSE 0

Completed == job.status \in {"completed", "complete"}

\* C6: within one downloadTableData call the stages follow one another in the
\* order submission, polling, URL resolution, byte download and never go back;
\* a stage is left for a later one only in the step that receives the answer
\* to its own request; URL resolution is entered (and files are returned) only
\* when the answer just received shows the job completed; and a vendor request
\* is sent only right after ensureAuthenticated has returned with a stored
\* token that has not expired.
C6_StagesInOrder ==
  [][top' = "downloadTableData" =>
       /\ Stage' # 0 => Stage' >= Stage
       /\ (Stage' # Stage /\ Stage' # 0) =>
            /\ Stage = 0 => Stage' = 1 /\ pc = "idle"
            /\ Stage # 0 => pc = "reqWait"
            /\ Stage' = 2 => Stage = 1
            /\ Stage' = 3 => Stage \in {1, 2} /\ Completed'
            /\ Stage' = 4 => Stage = 3
       /\ (pc' = "reqWait" /\ pc # "reqWait") =>
            /\ pc = "send" /\ Last(log).ev = "ensure.ret"
            /\ accessToken # null /\ tokenExpiry # null /\ now < tokenExpiry
            /\ Stage' = Stage
       /\ (Returned' /\ ~Returned) =>
            /\ pc \in {"reqWait", "directWait", "dlWait"}
            /\ Completed'
  ]_vars

C6_Witness ==
  /\ top = "downloadTableData" /\ Returned
  /\ timeout = DefaultTimeout /\ pollStart > startTime
  /\ Len(files) >= 1 /\ Last(log).op = "downloadFile"

\* ---- C7 ----------------------------------------------------------------------------
NoObjects == job.objects = None \/ job.objects = Some(<<>>)

\* C7: when the answer that shows the job completed carries no objects (the
\* list is empty or absent), downloadTableData has returned {files: []} at that
\* very answer; and whenever a URL-resolution request or a download has been
\* started or made by the call, the job is completed with at least one object.
C7_NoObjectsNoFiles ==
  top = "downloadTableData" =>
    /\ (log # <<>> /\ Last(log).ev = "resp"
        /\ Last(log).op \in {"queryTableData", "getJobStatus"}
        /\ Last(log).s \in {"completed", "complete"}
        /\ (Last(log).op = "queryTableData" => Last(log).n # null)) =>
          /\ NoObjects
          /\ Returned /\ outcome.val = [files |-> <<>>]
    /\ (\E i \in DOMAIN log : log[i].op \in {"getDownloadUrls", "downloadFile"}) =>
          /\ Completed /\ ~NoObjects
          /\ job.objects = Some(objectIds)
    /\ (Returned /\ NoObjects) =>
          /\ outcome.val = [files |-> <<>>]
          /\ Last(log).op \in {"queryTableData", "getJobStatus"}

C7_Witness ==
  /\ top = "downloadTableData" /\ Returned
  /\ job.objects = Some(<<>>) /\ job.status = "completed"
  /\ Last(log).op = "getJobStatus"
  /\ outcome.val = [files |-> <<>>]


\* ---- C8 ----------------------------------------------------------------------------
\* The FileResults downloadTableData has returned.
ReturnedFiles == outcome.val.files

ManyObjects ==
  /\ top = "downloadTableData" /\ Returned
  /\ Completed /\ job.objects # None /\ Len(job.objects[1]) >= 1

HasUrl(info) == info.url # None

\* C8 as stated: for a completed job with n >= 1 objects downloadTableData
\* returns n FileResults, the i-th with the i-th object's content.
C8_OneFilePerObject ==
  ManyObjects =>
    /\ Len(ReturnedFiles) = Len(job.objects[1])
    /\ \A i \in DOMAIN ReturnedFiles :
         /\ "content" \in DOMAIN ReturnedFiles[i]
         /\ ReturnedFiles[i].content = ObjectBytes(job.objects[1][i])

\* C8 amended: for a completed job with n >= 1 objects downloadTableData
\* returns one FileResult for every entry of the URL-resolution answer that
\* has a url, in the order of the answer (an object the answer has no entry
\* or no url for yields none); each carries the filename the answer gave, or
\* `<table>_<objectId>` when it gave none, and either the object's bytes as
\* content or, when the Relay answered the download with a redirect envelope,
\* isRedirect, redirectUrl and message in place of content.
C8_OneFilePerResolvedUrl ==
  ManyObjects =>
    LET resolved == SelectSeq(urlInfo, HasUrl)
    IN /\ Len(ReturnedFiles) = Len(resolved)
       /\ Len(resolved) <= Len(job.objects[1])
       /\ \A i \in DOMAIN resolved :
            LET info == resolved[i]
                file == ReturnedFiles[i]
                name == IF info.filename = None
                        THEN "users_" \o ToString(info.id)
                        ELSE info.filename[1]
            IN \/ file = [filename |-> name, content |-> <<info.id, 255>>]
               \/ /\ info.url[1].s3 /\ info.url[1].signed
                  /\ file = [filename |-> name, isRedirect |-> TRUE,
                             redirectUrl |-> info.url[1],
                             message |-> "Large file detected. Click to download directly."]

C8_Witness ==
  /\ ManyObjects
  /\ Len(urlInfo) = Len(job.objects[1])
  /\ Len(ReturnedFiles) = Len(urlInfo)
  /\ ReturnedFiles[1].filename = FileName(1)
  /\ "content" \in DOMAIN ReturnedFiles[1]

\* ---- C9 ----------------------------------------------------------------------------
\* the polls of getTableData that have observed the job as failed
ObservedFailed ==
  {i \in Observed : top = "getTableData" /\ log[i].s = "failed"}

\* C9 as stated: when a poll of getTableData observes `failed` with an error
\* string e, the call raises JobFailed with e verbatim; the placeholder reason
\* is used only when the job has no error field.
C9_ReasonVerbatim ==
  \A i \in ObservedFailed :
    /\ job.error # None => Threw("Job failed: " \o job.error[1])
    /\ job.error = None => Threw("Job failed: Unknown error")

\* C9 amended: when a poll of getTableData observes `failed` with a non-empty
\* error string e, the call raises JobFailed with e verbatim, at that poll;
\* the placeholder reason is used when the job has no error field or when its
\* error string is empty.
C9_NonEmptyReasonVerbatim ==
  \A i \in ObservedFailed :
    /\ i = Len(log)
    /\ (job.error # None /\ job.error # Some("")) =>
         Threw("Job failed: " \o job.error[1])
    /\ (job.error = None \/ job.error = Some("")) =>
         Threw("Job failed: Unknown error")

C9_Witness ==
  /\ ObservedFailed # {}
  /\ job.error = Some("quota exceeded")
  /\ Threw("Job failed: quota exceeded")

\* ---- C10 ---------------------------------------------------------------------------
\* The step in which getTableData receives the answer to its submission.
SubmitAnswered ==
  top = "getTableData" /\ cur = "queryTableData" /\ pc = "reqWait"

Polling == cur = "getJobStatus"

\* C10 as stated: no job-status poll is started when the submitted job is
\* already terminal (completed or failed).
C10_NoPollWhenTerminal ==
  [][SubmitAnswered => (job'.status \in TerminalStatuses => ~Polling')]_vars

\* C10 amended: getTableData starts no job-status poll when the submitted job
\* is already `completed` (or `complete`): it returns that job from the submit
\* response alone.  For a job submitted as pending, running or failed it
\* awaits completion with the default timeout and poll interval, which starts
\* a poll at once.
C10_NoPollWhenCompleted ==
  [][SubmitAnswered =>
       /\ Completed' => ~Polling'
       /\ Returned' <=>
            /\ Last(log').ev = "resp" /\ Last(log').op = "queryTableData"
            /\ Last(log').n # null /\ Last(log').s \in {"completed", "complete"}
       /\ Returned' => Completed' /\ outcome'.val = Some(JobData(job', Last(log').n))
       /\ \/ Returned'
          \/ Threw("No job ID returned from query")'
          \/ Threw("Failed to query table data: Proxy request failed")'
          \/ \E st \in EnvelopeStatuses :
               Threw("Failed to query table data: Failed to query table data: "
                       \o StatusLine(st))'
          \/ /\ Polling' /\ ~Finished' /\ ~Completed'
             /\ jobId' # null /\ startTime' = now' /\ pollStart' = now'
             /\ timeout' = DefaultTimeout /\ pollInterval' = DefaultPollInterval
  ]_vars

C10_Witness ==
  /\ top = "getTableData" /\ Polling
  /\ job.status = "failed" /\ pollStart = startTime
  /\ timeout = DefaultTimeout
  /\ Events("resp") = {}


\* ---- C11 ---------------------------------------------------------------------------
\* C11: with any number of callers of ensureAuthenticated and authenticate in
\* flight at once, accessToken and tokenExpiry are at every moment either both
\* unset or the token of one successful authentication answer together with
\* the expiry computed from that same answer (its arrival time plus its
\* expires_in, or plus 3600 when it has none).
C11_TokenAndExpiryFromOneAnswer ==
  \/ accessToken = null /\ tokenExpiry = null
  \/ \E g \in granted :
       /\ accessToken = g.access_token
       /\ tokenExpiry = g.at + (IF g.expires_in = 0 THEN 3600 ELSE g.expires_in)

C11_Witness ==
  /\ \A c \in 1..MaxCallers : waiting[c]
  /\ Cardinality(granted) >= 2
  /\ accessToken = 2 /\ tokenExpiry = now


\* ---- C12 ---------------------------------------------------------------------------
\* A step in which the page calls a method of the client.
Called == pc = "idle" /\ top' # "none"

\* C12: a call of authenticate, or of a token-gated method, made while
\* clientId or clientSecret is unset ends at once with MissingCredentials:
\* no authentication request and no vendor request is sent, and accessToken
\* and tokenExpiry are as they were.
C12_MissingCredentialsSendNothing ==
  [][(Called /\ ~(clientId /\ clientSecret)) =>
       /\ Threw(MissingCredentials)'
       /\ accessToken' = accessToken /\ tokenExpiry' = tokenExpiry
       /\ \A i \in DOMAIN log' : log'[i].ev \notin {"auth.req", "req"}
  ]_vars

C12_Witness ==
  /\ top = "queryTableData" /\ Threw(MissingCredentials)
  /\ clientId /\ ~clientSecret
  /\ Events("req") = {} /\ accessToken = null

\* ---- C13 ---------------------------------------------------------------------------
AuthenticationFailed ==
  {"Authentication failed: Proxy request failed",
   "Authentication failed: Authentication failed: 401 - "}

\* C13: when the answer to the authentication request is not a 200 envelope,
\* the call ends with AuthenticationFailed, accessToken and tokenExpiry keep
\* the values they had, and no vendor request is sent by the operation; when
\* an operation had triggered the authentication, the stored token is still
\* unusable afterwards, so the next operation authenticates again.
C13_FailedAuthenticationKeepsToken ==
  [][(pc = "authWait" /\ Last(log').ev = "auth.resp" /\ Last(log').s # "ok") =>
       /\ accessToken' = accessToken /\ tokenExpiry' = tokenExpiry
       /\ pc' = "done" /\ outcome'.kind = "throw"
       /\ outcome'.err \in AuthenticationFailed
       /\ \A i \in DOMAIN log' : log'[i].ev # "req"
       /\ top' # "authenticate" => TokenState(St)' # 0
  ]_vars

C13_Witness ==
  /\ top = "getTables" /\ Finished /\ outcome.err \in AuthenticationFailed
  /\ Last(log).ev = "auth.resp"
  /\ accessToken # null /\ now >= tokenExpiry


\* ---- C14 ---------------------------------------------------------------------------
\* the polls whose request has failed
FailedPolls ==
  {i \in Events("resp") : log[i].op = "getJobStatus" /\ log[i].s = ""}

\* C14: a poll answered with envelope status 404 fails with JobNotFound
\* ("Job not found or expired: <jobId>"), and a poll that fails in any way is
\* the last thing waitForJobCompletion does: the call has ended with that
\* failure at the time of the answer, without a sleep or another poll.
C14_FailedPollEndsTheWait ==
  top = "waitForJobCompletion" =>
    \A i \in FailedPolls :
      /\ i = Len(log)
      /\ pc = "done" /\ outcome.kind = "throw" /\ outcome.at = now
      /\ log[i].n = 404 =>
           outcome.err = "Failed to get job status: Job not found or expired: 1"
      /\ log[i].n = 500 =>
           outcome.err = "Failed to get job status: Failed to get job status: 500 - "
      /\ log[i].n = ProxyFailed =>
           outcome.err = "Failed to get job status: Proxy request failed"

C14_Witness ==
  /\ top = "waitForJobCompletion" /\ pollStart > startTime
  /\ FailedPolls # {} /\ Last(log).n = 404
  /\ Threw("Failed to get job status: Job not found or expired: 1")


\* ---- C15 ---------------------------------------------------------------------------
\* The Relay's large-download pattern: object-storage host, a pre-signed
\* X-Amz parameter, and one of the file extensions.
LargeDownload(u) ==
  /\ u.s3 /\ u.signed
  /\ u.exts \cap {".gz", ".csv", ".parquet", ".zip", ".json", ".jsonl", ".tsv", ".txt"} # {}

\* C15: for a request whose url matches the large-download pattern the Relay
\* makes no outbound call and its answer carries no data; a proxy request (a
\* POST) for such a url is answered with the redirect envelope
\* {redirect: url, status: 302} whose redirect is the requested url.
C15_LargeDownloadIsRedirected ==
  (relay.pc # "idle" /\ relay.req.url # None /\ LargeDownload(relay.req.url[1])) =>
     /\ relay.pc = "answered" /\ ~relay.outbound
     /\ relay.envelope # None => relay.envelope[1].data = None
     /\ relay.req.method = "POST" =>
          /\ relay.code = 200
          /\ relay.envelope =
               Some([redirect |-> relay.req.url, status |-> 302, data |-> None,
                     isBinary |-> FALSE])

C15_Witness ==
  /\ relay.pc = "answered" /\ relay.req.method = "POST"
  /\ relay.req.url # None /\ LargeDownload(relay.req.url[1])
  /\ relay.req.url[1].path = "/dap/object/"
  /\ relay.envelope # None /\ relay.envelope[1].status = 302

\* ---- C20 ---------------------------------------------------------------------------
\* C20 as stated: an upstream response whose Content-Type contains
\* application/json is answered with a JSON envelope (the parsed value as data,
\* isBinary not set), whatever the url of the request.
C20_JsonContentTypeWins ==
  (/\ relay.pc = "answered" /\ relay.outbound
   /\ relay.upstream[1].ok
   /\ relay.upstream[1].contentType = "application/json"
   /\ JSONparse(toString(relay.upstream[1].body)) # None) =>
     /\ relay.code = 200 /\ relay.envelope # None
     /\ ~relay.envelope[1].isBinary
     /\ relay.envelope[1].data = JSONparse(toString(relay.upstream[1].body))

\* The positions of the log where the Relay answered a download with a
\* redirect envelope.
Redirected == {i \in Events("dl.resp") : log[i].s = "redirect"}

\* C16: when the Relay answers a download with a redirect envelope,
\* downloadFile returns a RedirectDescriptor and never bytes,
\* downloadTableData records for that object a redirect entry without
\* content, and neither of them requests the url of the redirect afterwards.
C16_RedirectIsHandedBack ==
  \A i \in Redirected :
    LET o == log[i].n
    IN /\ \A j \in DOMAIN log :
            j > i => ~(log[j].op = "downloadFile" /\ log[j].n = o)
       /\ top = "downloadFile" =>
            /\ i = Len(log)
            /\ Returned
            /\ outcome.val = RedirectDescriptor(dlUrl[1])
       /\ top = "downloadTableData" /\ pc # "idle" =>
            /\ \E k \in DOMAIN files :
                 /\ DOMAIN files[k] = {"filename", "isRedirect", "redirectUrl", "message"}
                 /\ files[k].isRedirect
                 /\ files[k].redirectUrl.obj = o
                 /\ isS3FileDownload(files[k].redirectUrl)
            /\ \A k \in DOMAIN files :
                 "content" \in DOMAIN files[k] => files[k].content # ObjectBytes(o)

\* downloadTableData returned after a redirect for one object and a further
\* download for the next one.
C16_Witness ==
  /\ top = "downloadTableData" /\ Returned
  /\ \E i \in Redirected : i < Len(log)
  /\ Len(outcome.val.files) = 2

\* A download the page asked downloadFile for has ended.
FileDone == top = "downloadFile" /\ Finished

\* C17 as stated: for every signed url of the large-file pattern, what
\* downloadFile returns is a RedirectDescriptor rather than bytes.
C17_LargeFileEndsInRedirect ==
  (FileDone /\ Returned /\ LargeDownload(dlUrl[1])) =>
     outcome.val = RedirectDescriptor(dlUrl[1])

\* C17: for every signed url of the large-file pattern, downloadFile ends
\* with a RedirectDescriptor whenever the Relay answered its request; it never
\* returns bytes that came through the Relay. It returns bytes only when the
\* url also has a data-file extension and the direct fetch succeeded, and it
\* fails only when the request to the Relay itself failed.
C17_LargeFileThroughRelayEndsInRedirect ==
  (FileDone /\ LargeDownload(dlUrl[1])) =>
     LET last == log[Len(log)]
     IN \/ /\ last.ev = "dl.resp" /\ last.s = "redirect"
           /\ Returned
           /\ outcome.val = RedirectDescriptor(dlUrl[1])
        \/ /\ last.ev = "direct.resp" /\ last.s = "ok"
           /\ isS3Url(dlUrl[1])
           /\ Events("dl.req") = {}
           /\ Returned
           /\ outcome.val = Buffer(ObjectBytes(dlUrl[1].obj))
        \/ /\ last.ev = "dl.resp" /\ last.s = ""
           /\ Threw("Failed to download file: Proxy request failed")

\* The direct fetch of a signed data file failed and the Relay answered with
\* a redirect.
C17_Witness ==
  /\ FileDone /\ LargeDownload(dlUrl[1])
  /\ Events("direct.resp") # {}
  /\ Returned
  /\ outcome.val.type = "redirect"

\* C18: downloadFile starts with a direct fetch exactly when the url is of
\* the direct-access pattern with a data-file extension; for such a url the
\* Relay is asked only after the direct fetch failed, and a failed direct
\* fetch is always followed by the request to the Relay; any other url goes
\* to the Relay without a direct fetch.
C18_DirectFetchThenRelay ==
  (top = "downloadFile" /\ pc # "idle") =>
     LET u == dlUrl[1]
         direct == u.s3 /\ (u.exts \cap DataExtensions # {})
     IN /\ log[1].ev = (IF direct THEN "direct.req" ELSE "dl.req")
        /\ Cardinality(Events("direct.req")) = (IF direct THEN 1 ELSE 0)
        /\ Cardinality(Events("dl.req")) <= 1
        /\ \A i \in Events("dl.req") :
             direct => /\ i = 3
                       /\ log[2].ev = "direct.resp"
                       /\ log[2].s = "failed"
        /\ \A i \in Events("direct.resp") :
             IF log[i].s = "failed"
             THEN /\ Len(log) > i
                  /\ log[i + 1].ev = "dl.req"
             ELSE /\ i = Len(log)
                  /\ Returned
                  /\ outcome.val = Buffer(ObjectBytes(u.obj))

\* The direct fetch failed and the bytes came through the Relay.
C18_Witness ==
  /\ top = "downloadFile" /\ Returned
  /\ Len(log) = 4
  /\ log[2].ev = "direct.resp" /\ log[2].s = "failed"
  /\ outcome.val.type = "buffer"

\* The text the bytes of the delivered array stand for.
DeliveredText == toString(delivered[1].array)

\* C19: when the data of the URL-resolution envelope is a byte sequence that
\* decodes to JSON text starting with { and containing a urls key,
\* getDownloadUrls resolves it to the URL mapping of that JSON, as if the
\* JSON had arrived parsed.
C19_BytesResolveLikeParsedJson ==
  (/\ top = "getDownloadUrls" /\ Returned
   /\ delivered # None /\ IsArray(delivered[1])
   /\ startsWithBrace(DeliveredText) /\ includesUrls(DeliveredText)
   /\ JSONparse(DeliveredText) # None) =>
      outcome.val = getDownloadUrls_urls(JSONparse(DeliveredText)[1])

\* C21: for every byte sequence b, the Relay's byte-sequence envelope of b,
\* decoded by downloadFile, gives a buffer whose bytes are those of b, in the
\* same order and number.
C21_BytesRoundTrip ==
  (top = "downloadFile" /\ Returned /\ delivered # None) =>
     /\ outcome.val.type = "buffer"
     /\ Len(outcome.val.bytes) = Len(delivered[1])
     /\ \A i \in DOMAIN delivered[1] : outcome.val.bytes[i] = delivered[1][i]

\* A file of three bytes, 255 and 0 among them, went through.
C21_Witness ==
  /\ top = "downloadFile" /\ Returned /\ delivered # None
  /\ Len(delivered[1]) = 3
  /\ delivered[1][1] = 255 /\ delivered[1][2] = 0 /\ delivered[1][3] = 128

\* The Relay has answered a request for which its outbound call got a
\* response with a status below 500.
Passed == relay.pc = "answered" /\ relay.outbound /\ relay.upstream[1].ok

\* C22: every envelope with isBinary = true has as data an ordered list of
\* integers in 0..255 with the length and order of the bytes of the upstream
\* body; a redirect envelope never carries isBinary.
C22_BinaryEnvelopeCarriesBodyBytes ==
  (relay.pc = "answered" /\ relay.envelope # None) =>
     LET e == relay.envelope[1]
     IN /\ e.redirect # None => ~e.isBinary
        /\ e.isBinary =>
             /\ Passed
             /\ IsArray(e.data[1])
             /\ \A i \in DOMAIN e.data[1].array.name : e.data[1].array.name[i] \in 0..255
             /\ e.data[1].array = relay.upstream[1].body

ConversionFails ==
  /\ ~isBinaryDownload(relay.req.url[1])
  /\ relay.upstream[1].contentType \in BinaryContentTypes
  /\ JSONparse(toString(relay.upstream[1].body)) # None

C24_TimeoutHasItsOwnSignal ==
  relay.pc = "answered" =>
    /\ (relay.outbound /\ ~relay.upstream[1].ok) =>
         /\ relay.envelope = None
         /\ IF relay.upstream[1].code = "ECONNABORTED"
            THEN relay.code = 504 /\ relay.errorCode = Some("TIMEOUT")
            ELSE relay.code = 500 /\ relay.errorCode = None
    /\ relay.errorCode # None =>
         /\ relay.outbound /\ ~relay.upstream[1].ok
         /\ relay.upstream[1].code = "ECONNABORTED"

\* The outbound call of a proxy request timed out.
C24_Witness ==
  /\ relay.pc = "answered" /\ relay.outbound
  /\ ~relay.upstream[1].ok /\ relay.upstream[1].code = "ECONNABORTED"
  /\ relay.errorCode = Some("TIMEOUT")

\* C25: the Relay answers every OPTIONS request itself, without an outbound
\* call and whatever the body, with Access-Control-Allow-Origin equal to the
\* Origin header of the request and with credentials allowed.
C25_PreflightEchoesOrigin ==
  (relay.pc = "answered" /\ relay.req.method = "OPTIONS") =>
     /\ ~relay.outbound
     /\ relay.req.origin # None => relay.allowOrigin = relay.req.origin
     /\ relay.allowCredentials

\* The object has the field, with a value other than undefined and null.
IsSet(f) == f # None /\ f[1].kind \notin {"undefined", "null"}

\* The absolute timestamp strings of the model.
TimestampTexts ==
  {"2024-01-01T00:00:00Z", "2024-02-01T00:00:00Z",
   "1970-01-01T00:00:00.000Z", "1970-01-01T00:00:01.500Z", "1970-01-01T00:00:59.999Z"}
IsTimestamp(v) == v.kind = "string" /\ v.text \in TimestampTexts

\* The page has built the descriptor query with one of the builders.
Built(builder) ==
  args # None /\ args[1].builder = builder /\ top = "queryTableData"

\* The body of the query submission that has been sent.
Submitted == payload # None /\ payload[1].op = "queryTableData"
Body == payload[1].data[1]

\* C26: every descriptor built by createIncrementalQuery has since, serialized
\* as an absolute timestamp string; every descriptor built by
\* createSnapshotQuery has neither since nor until.
C26_BuildersSerializeSince ==
  /\ Built("createIncrementalQuery") =>
       query.since # None /\ IsTimestamp(query.since[1])
  /\ Built("createSnapshotQuery") =>
       query.since = None /\ query.until = None

\* C27: until is set only if since is set, in every descriptor the builders
\* produce and in every request body queryTableData sends.
C27_UntilOnlyWithSince ==
  /\ (Built("createIncrementalQuery") \/ Built("createSnapshotQuery")) =>
       (IsSet(query.until) => IsSet(query.since))
  /\ Submitted => (IsSet(Body.until) => IsSet(Body.since))

\* C28: for an incremental query built without since no query submission is
\* sent.
C28_AbsentSinceIsRejected ==
  (/\ args # None /\ args[1].builder = "createIncrementalQuery"
   /\ args[1].since.kind \in {"undefined", "null"}) =>
     /\ ~Submitted
     /\ \A i \in DOMAIN log : ~(log[i].ev = "req" /\ log[i].op = "queryTableData")

\* C29: the body queryTableData submits has format, has since, until and mode
\* only when they are set on the descriptor, with the descriptor's values, and
\* has no other field of the descriptor.
C29_BodyHasOnlyTheFourFields ==
  Submitted =>
    /\ DOMAIN Body = {"format", "since", "until", "mode", "type"}
    /\ Body.format # None /\ Body.format = query.format
    /\ Body.type = None
    /\ \A f \in {"since", "until", "mode"} :
         Body[f] # None => IsSet(query[f]) /\ Body[f] = query[f]

\* A descriptor with since, until, mode and a type field was submitted.
C29_Witness ==
  /\ Submitted /\ query.type # None
  /\ Body.since # None /\ Body.until # None /\ Body.mode # None

\* The request carries the credentials.
Credentialed(p) == p.authorization # None /\ p.authorization[1].scheme = "Basic"

PollBegins == cur' = "getJobStatus" /\ cur # "getJobStatus"

\* C31: in a waitForJobCompletion call every poll but the first begins at the
\* end of one wait of pollInterval seconds, pollInterval being the value the
\* call was given; every wait follows a poll that observed a status that is
\* not terminal and ends in the next poll or in JobTimedOut; and the poll that
\* observes a terminal status is the last: the call has ended with it.
C31_FixedPollInterval ==
  [][top = "waitForJobCompletion" =>
       /\ top' = top => pollInterval' = pollInterval
       /\ PollBegins =>
            /\ pc = "sleep" /\ pollStart' = pollEnd + pollInterval
            /\ Last(log) = Ev("sleep", "waitForJobCompletion", pollInterval, "")
       /\ pc = "sleep" =>
            /\ now' = now + pollInterval
            /\ Len(log) > 1 /\ log[Len(log) - 1].ev = "resp"
            /\ log[Len(log) - 1].s \notin TerminalStatuses \cup {""}
            /\ (PollBegins /\ now' - startTime < timeout) \/ Threw(TimedOutMessage)'
       /\ (log' # <<>> /\ Last(log').ev = "resp" /\ Last(log').s \in TerminalStatuses) =>
            Finished'
       /\ pc' = "sleep" => pc = "reqWait" /\ pollEnd' = now'
  ]_vars

\* The second poll of a call begins one wait after the first has observed a
\* status that is not terminal.
C31_Witness ==
  /\ top = "waitForJobCompletion" /\ cur = "getJobStatus"
  /\ pollStart = now /\ pollStart = pollEnd + pollInterval
  /\ pollStart > startTime

\* ---- C32 ---------------------------------------------------------------------------
\* The clock of the model does not stop before the call's last wait is over:
\* the last poll begins before startTime + timeout, takes an authentication
\* and a status request at most, and is followed by one wait.
WithinClock ==
  startTime + timeout - 1 + 2 * MaxLatency + pollInterval <= MaxTime

\* the errors of getJobStatus and of the authentication it awaits
PollErrors ==
  {"Failed to get job status: Proxy request failed",
   "Failed to get job status: Job not found or expired: 1",
   "Failed to get job status: Failed to get job status: 500 - ",
   MissingCredentials}
  \cup AuthenticationFailed

JobFailed ==
  pc = "done" /\ outcome.kind = "throw"
  /\ \E e \in {"Unknown error"} \cup ErrorStrings : outcome.err = "Job failed: " \o e

\* C32: when every request is answered and every timer fires, a call of
\* waitForJobCompletion ends; it ends by returning the job, with JobFailed,
\* with JobTimedOut or with the error of a poll; and a poll that observes a
\* status other than completed, complete and failed is followed by a wait,
\* after which the call polls again or has raised JobTimedOut.
C32_WaitTerminates ==
  /\ (top = "waitForJobCompletion" /\ WithinClock) ~> Finished
  /\ [](top = "waitForJobCompletion" =>
          /\ Finished =>
               \/ Returned /\ outcome.val # None
               \/ JobFailed
               \/ Threw(TimedOutMessage)
               \/ outcome.kind = "throw" /\ outcome.err \in PollErrors
          /\ \A i \in Observed :
               log[i].s \notin TerminalStatuses =>
                 /\ i < Len(log) /\ log[i + 1].ev = "sleep"
                 /\ pc = "sleep" \/ Threw(TimedOutMessage))

\* A call ends with JobTimedOut after a poll has found a status the client
\* does not know.
C32_Witness ==
  /\ top = "waitForJobCompletion" /\ WithinClock
  /\ Threw(TimedOutMessage)
  /\ \E i \in Observed : log[i].s \in OddStatuses

\* ---- C33 ---------------------------------------------------------------------------
\* C33: the deadline is looked at before each poll and nowhere else.  A call
\* with timeout 0 raises JobTimedOut at once, without a poll.  When a wait
\* ends at or after the deadline the call raises JobTimedOut without another
\* status request, whatever has become of the job; when it ends before the
\* deadline the call polls.  An answer that arrives after the deadline is
\* still taken: a completed job is returned.
C33_DeadlineOnlyBeforePoll ==
  [][/\ (Called /\ top' = "waitForJobCompletion" /\ timeout' = 0) =>
          Threw(TimedOutMessage)' /\ log' = <<>> /\ outcome'.at = startTime'
     /\ (top = "waitForJobCompletion" /\ pc = "sleep" /\ pc' # "sleep") =>
          IF now' - startTime >= timeout
          THEN Threw(TimedOutMessage)' /\ log' = log
          ELSE PollBegins
     /\ (top = "waitForJobCompletion" /\ pc = "reqWait" /\ log' # <<>>
         /\ Last(log').ev = "resp" /\ Last(log').s \in {"completed", "complete"}) =>
          Returned'
  ]_vars

\* The job was completed during the last wait and the call has timed out.
C33_Witness ==
  /\ top = "waitForJobCompletion" /\ Threw(TimedOutMessage)
  /\ log # <<>> /\ Last(log).ev = "sleep"
  /\ log[Len(log) - 1].s = "running" /\ job.status = "completed"

\* ---- C34 ---------------------------------------------------------------------------
\* C34: an operation called while no valid token is stored sends an
\* authentication request of its own, whether or not another operation's
\* authentication is in flight; the stored token is the one of the successful
\* authentication answer processed last; an operation whose authentication
\* has succeeded goes on to send its request (one whose authentication has
\* failed ends there), and every request sent carries the token stored at
\* that moment, a token of a successful authentication.
C34_NoSingleFlight ==
  [][/\ \A c \in 1..MaxCallers :
          /\ (/\ flight[c].pc = "none" /\ flight'[c].pc # "none"
              /\ clientId /\ clientSecret /\ TokenState(St) # 0) =>
               /\ flight'[c].pc = "authWait"
               /\ payload' # None /\ payload'[1].op = "authenticate"
          /\ (flight[c].pc = "authWait" /\ flight'[c].pc # "authWait") =>
               IF granted' # granted
               THEN flight'[c].pc = "send" /\ accessToken' = Cardinality(granted')
               ELSE flight'[c].pc = "failed" /\ accessToken' = accessToken
          /\ (flight[c].pc = "send" /\ flight'[c].pc # "send") =>
               /\ flight'[c].pc = "reqWait"
               /\ flight'[c].token = accessToken
               /\ \E g \in granted : g.access_token = flight'[c].token
     /\ granted' # {} => accessToken' = Cardinality(granted')
  ]_vars

\* Two operations called while no token was stored have each been given a
\* token, and have sent their requests, one with the first token and one with
\* the second.
C34_Witness ==
  /\ now = 0 /\ Cardinality(granted) = 2 /\ accessToken = 2
  /\ flight[1].pc = "reqWait" /\ flight[2].pc = "reqWait"
  /\ {flight[1].token, flight[2].token} = {1, 2}

\* ---- C35 ---------------------------------------------------------------------------
\* the ids of the objects of job j
ObjectsOf(j) == IF j.objects = None THEN {} ELSE {j.objects[1][i] : i \in DOMAIN j.objects[1]}

\* C35: a Run Query action that has come to downloadTableData holds in
\* jobInfo the job created first, and downloadTableData submits the query
\* again: the job it polls is the one created second, the objects it asks the
\* urls of are those of that second job, and so are the files it returns;
\* none of them is an object of the job in jobInfo.
C35_DownloadIsOfSecondJob ==
  /\ (handler.step = "getTableData" /\ cur = "getJobStatus") => created = 1 /\ jobId = 1
  /\ handler.step = "downloadTableData" =>
       /\ handler.jobInfo # None /\ handler.jobInfo[1].id = 1
       /\ (cur = "queryTableData" /\ pc = "reqWait") =>
            created = 1 /\ payload[1].op = "queryTableData"
       /\ cur = "getJobStatus" => created = 2 /\ jobId = 2
       /\ (cur = "getDownloadUrls" \/ pc = "dlWait" \/ Returned) =>
            /\ created = 2
            /\ \A i \in DOMAIN objectIds :
                 /\ objectIds[i] \in ObjectsOf(job)
                 /\ objectIds[i] \notin ObjectsOf(handler.jobInfo[1])
       /\ Returned =>
            \A i \in DOMAIN outcome.val.files :
              \E o \in ObjectsOf(job) : outcome.val.files[i].filename = FileName(o)

\* The job reported after the first call has two objects; the one file that
\* is returned is the one object of the second job.
C35_Witness ==
  /\ handler.step = "downloadTableData" /\ Returned
  /\ handler.jobInfo[1].objects = Some(<<11, 12>>)
  /\ Len(outcome.val.files) = 1 /\ outcome.val.files[1].filename = FileName(21)

\* ---- C36 ---------------------------------------------------------------------------
\* The data of a URL-resolution answer yields no urls mapping: an object
\* without the key, or bytes whose text does not parse as JSON.
NoMapping(data) ==
  \/ IsObject(data) /\ data.urls = None
  \/ IsArray(data) /\ JSONparse(toString(data.array)) = None

\* C36: when the URL-resolution envelope has status 200 and its data yields
\* no urls mapping, getDownloadUrls returns the empty mapping, and
\* downloadTableData, called for a completed job with one object or more,
\* returns {files: []}; neither raises.
C36_NoMappingNoFilesNoError ==
  [][(/\ pc = "reqWait" /\ cur = "getDownloadUrls"
      /\ Last(log').ev = "resp" /\ Last(log').s = "ok"
      /\ NoMapping(delivered'[1])) =>
        /\ Returned'
        /\ top = "getDownloadUrls" => outcome'.val = <<>>
        /\ top = "downloadTableData" =>
             /\ outcome'.val = [files |-> <<>>]
             /\ job.status \in {"completed", "complete"} /\ ObjectsOf(job) # {}
  ]_vars

\* downloadTableData has returned no files for a completed job of two objects
\* whose urls were answered with bytes that do not parse.
C36_Witness ==
  /\ top = "downloadTableData" /\ Returned /\ outcome.val = [files |-> <<>>]
  /\ Cardinality(ObjectsOf(job)) = 2
  /\ delivered # None /\ IsArray(delivered[1]) /\ NoMapping(delivered[1])

\* ---- C37 ---------------------------------------------------------------------------
\* downloadTableData is awaiting the downloadFile call of its loop.
Downloading == top = "downloadTableData" /\ pc \in {"dlWait", "directWait"}

DownloadErrors ==
  {"Failed to download file: Proxy request failed",
   "Failed to download file: Failed to download file: 404 - "}

\* C37: while downloadTableData awaits a download, it is the download of the
\* entry the loop is at, and the files of all the entries before it that have
\* a url are already in files; the download of a later entry begins only in
\* the step that adds the file of this one.  When the download fails the call
\* ends with downloadFile's error in the same step: it returns nothing, the
\* files it had are not handed out, and no later entry is fetched.
C37_OneAtATimeAllOrNothing ==
  [][Downloading =>
       /\ dlUrl = urlInfo[objIdx].url
       /\ Len(files) = Len(SelectSeq(SubSeq(urlInfo, 1, objIdx - 1), HasUrl))
       /\ (Downloading' /\ objIdx' # objIdx) =>
            objIdx' > objIdx /\ Len(files') = Len(files) + 1
       /\ (pc = "dlWait" /\ Last(log').ev = "dl.resp" /\ Last(log').s = "") =>
            /\ pc' = "done" /\ outcome'.kind = "throw" /\ outcome'.err \in DownloadErrors
            /\ outcome'.val = <<>> /\ objIdx' = objIdx /\ files' = files
       /\ Finished' => (outcome'.kind = "throw" <=> Last(log').s = "")
  ]_vars

\* The first of two objects was downloaded, the download of the second has
\* failed, and the call has ended with the error.
C37_Witness ==
  /\ top = "downloadTableData" /\ Threw("Failed to download file: Proxy request failed")
  /\ Len(urlInfo) = 2 /\ objIdx = 2 /\ Len(files) = 1

====
